---- MODULE Spec2Model ----
(***************************************************************************)
(* Model of backend/server.py of the Presupuestos application: the catalog *)
(* store (products, marking techniques, quotes), the semantic request      *)
(* parser, the scoring engine and the three-tier quote builder.            *)
(*                                                                         *)
(* Numbers that are floats in the program are exact rationals here         *)
(* (records [n, d] in lowest terms, d > 0).  Strings are TLA+ strings;     *)
(* Python's substring test, lower() and re.search are computed on them.    *)
(***************************************************************************)
EXTENDS Integers, Sequences, FiniteSets, TLC

\* ------------------------------------------------------------------------
\* Exact arithmetic standing for Python floats
\* ------------------------------------------------------------------------
Abs(x) == IF x < 0 THEN -x ELSE x

RECURSIVE Gcd(_, _)
Gcd(a, b) == IF b = 0 THEN a ELSE Gcd(b, a % b)

\* the rational n/d in lowest terms with a positive denominator
R(n, d) ==
    LET s == IF d < 0 THEN -1 ELSE 1
        g == Gcd(Abs(n), Abs(d))
    IN  [n |-> (s * n) \div g, d |-> (s * d) \div g]

RInt(k) == [n |-> k, d |-> 1]
RZero == RInt(0)
RAdd(a, b) == R(a.n * b.d + b.n * a.d, a.d * b.d)
RSub(a, b) == R(a.n * b.d - b.n * a.d, a.d * b.d)
RMul(a, b) == R(a.n * b.n, a.d * b.d)
RDiv(a, b) == R(a.n * b.d, a.d * b.n)
RLe(a, b) == a.n * b.d <= b.n * a.d
RLt(a, b) == a.n * b.d < b.n * a.d
RMax(a, b) == IF RLe(a, b) THEN b ELSE a

RECURSIVE RSum(_)
RSum(seq) == IF seq = <<>> THEN RZero ELSE RAdd(Head(seq), RSum(Tail(seq)))

\* round(x, 2): nearest multiple of 0.01, an exact tie going to the even one
Round2(x) ==
    LET c == x.n * 100
        q == c \div x.d
        twice == 2 * (c - q * x.d)
    IN  IF twice < x.d THEN R(q, 100)
        ELSE IF twice > x.d THEN R(q + 1, 100)
        ELSE IF q % 2 = 0 THEN R(q, 100) ELSE R(q + 1, 100)

\* ------------------------------------------------------------------------
\* Strings
\* ------------------------------------------------------------------------
\* Python's "t in s"
Contains(s, t) ==
    \E i \in 1..(Len(s) - Len(t) + 1) : SubSeq(s, i, i + Len(t) - 1) = t

CharAt(s, i) == SubSeq(s, i, i)

UpperChars == <<"A", "B", "C", "D", "E", "F", "G", "H", "I", "J", "K", "L", "M",
                "N", "O", "P", "Q", "R", "S", "T", "U", "V", "W", "X", "Y", "Z",
                "Á", "É", "Í", "Ó", "Ú", "Ñ">>
LowerChars == <<"a", "b", "c", "d", "e", "f", "g", "h", "i", "j", "k", "l", "m",
                "n", "o", "p", "q", "r", "s", "t", "u", "v", "w", "x", "y", "z",
                "á", "é", "í", "ó", "ú", "ñ">>

LowerMap == [c \in {UpperChars[k] : k \in 1..Len(UpperChars)} |->
                LowerChars[CHOOSE k \in 1..Len(UpperChars) : UpperChars[k] = c]]

LowerChar(c) == IF c \in DOMAIN LowerMap THEN LowerMap[c] ELSE c

\* str.lower()
RECURSIVE Lower(_)
Lower(s) ==
    IF Len(s) = 0 THEN ""
    ELSE LowerChar(CharAt(s, 1)) \o Lower(SubSeq(s, 2, Len(s)))

Digits == <<"0", "1", "2", "3", "4", "5", "6", "7", "8", "9">>
DigitMap == [c \in {Digits[k] : k \in 1..10} |-> (CHOOSE k \in 1..10 : Digits[k] = c) - 1]
IsDigit(c) == c \in DOMAIN DigitMap
DigitVal(c) == DigitMap[c]
\* str.isspace(): blank, tab, newline and the no-break space U+00A0
IsSpace(c) == c \in {" ", "\t", "\n", " "}

\* int(s) for a string of decimal digits
RECURSIVE StrToInt(_)
StrToInt(s) ==
    IF Len(s) = 0 THEN 0
    ELSE 10 * StrToInt(SubSeq(s, 1, Len(s) - 1)) + DigitVal(CharAt(s, Len(s)))

\* str(n) for n >= 0
RECURSIVE IntToStr(_)
IntToStr(n) ==
    IF n < 10 THEN Digits[n + 1]
    ELSE IntToStr(n \div 10) \o Digits[(n % 10) + 1]

\* length of the longest run of characters satisfying the class at s[i..]
RECURSIVE DigitRun(_, _)
DigitRun(s, i) ==
    IF i <= Len(s) /\ IsDigit(CharAt(s, i)) THEN 1 + DigitRun(s, i + 1) ELSE 0

RECURSIVE SpaceRun(_, _)
SpaceRun(s, i) ==
    IF i <= Len(s) /\ IsSpace(CharAt(s, i)) THEN 1 + SpaceRun(s, i + 1) ELSE 0

SetMax(S) == CHOOSE x \in S : \A y \in S : y <= x
SetMin(S) == CHOOSE x \in S : \A y \in S : x <= y

\* ------------------------------------------------------------------------
\* re.search for the patterns of parse_client_request.  A pattern is a
\* sequence of elements: [k |-> "num"] is the group (\d+), [k |-> "ws"] is
\* \s*, [k |-> "lit", s |-> text] is literal text.  Quantifiers are greedy
\* and backtrack, the leftmost match wins.
\* ------------------------------------------------------------------------
NUM == [k |-> "num", s |-> ""]
WS == [k |-> "ws", s |-> ""]
LIT(t) == [k |-> "lit", s |-> t]
NoMatch == [ok |-> FALSE, groups |-> <<>>]

RECURSIVE MatchFrom(_, _, _, _)
MatchFrom(pat, k, s, i) ==
    IF k > Len(pat) THEN [ok |-> TRUE, groups |-> <<>>]
    ELSE LET e == pat[k] IN
      CASE e.k = "lit" ->
             IF i + Len(e.s) - 1 <= Len(s) /\ SubSeq(s, i, i + Len(e.s) - 1) = e.s
             THEN MatchFrom(pat, k + 1, s, i + Len(e.s))
             ELSE NoMatch
        [] e.k = "ws" ->
             LET good == {l \in 0..SpaceRun(s, i) : MatchFrom(pat, k + 1, s, i + l).ok}
             IN  IF good = {} THEN NoMatch
                 ELSE MatchFrom(pat, k + 1, s, i + SetMax(good))
        [] e.k = "num" ->
             LET good == {l \in 1..DigitRun(s, i) : MatchFrom(pat, k + 1, s, i + l).ok}
             IN  IF good = {} THEN NoMatch
                 ELSE LET l == SetMax(good)
                          rest == MatchFrom(pat, k + 1, s, i + l)
                      IN  [ok |-> TRUE,
                           groups |-> <<StrToInt(SubSeq(s, i, i + l - 1))>> \o rest.groups]

re_search(pat, s) ==
    LET starts == {i \in 1..(Len(s) + 1) : MatchFrom(pat, 1, s, i).ok}
    IN  IF starts = {} THEN NoMatch ELSE MatchFrom(pat, 1, s, SetMin(starts))

\* ------------------------------------------------------------------------
\* parse_client_request
\* ------------------------------------------------------------------------
\* None for an optional string field / an optional number
None == "<None>"
NoNumber == -1

categoria_synonyms == <<
    [key |-> "gorra", syns |-> <<"gorra", "gorras", "cap", "caps", "trucker", "snapback", "6 paneles", "baseball", "visera">>],
    [key |-> "camiseta", syns |-> <<"camiseta", "camisetas", "t-shirt", "tshirt", "playera", "remera">>],
    [key |-> "polo", syns |-> <<"polo", "polos", "piqué", "pique">>],
    [key |-> "sudadera", syns |-> <<"sudadera", "sudaderas", "hoodie", "hoodies", "capucha", "jersey">>],
    [key |-> "taza", syns |-> <<"taza", "tazas", "mug", "mugs", "jarron">>],
    [key |-> "bolsa", syns |-> <<"bolsa", "bolsas", "bag", "bags", "tote", "shopper">>],
    [key |-> "chaleco", syns |-> <<"chaleco", "chalecos", "vest">>],
    [key |-> "delantal", syns |-> <<"delantal", "delantales", "mandil">>] >>

perfil_synonyms == <<
    [key |-> "bajo", syns |-> <<"bajo", "básico", "barato", "económico", "standard">>],
    [key |-> "medio", syns |-> <<"medio", "intermedio", "equilibrado", "normal">>],
    [key |-> "alto", syns |-> <<"alto", "premium", "calidad", "superior", "top">>] >>

tecnica_synonyms == <<
    [key |-> "bordado", syns |-> <<"bordado", "bordados", "embroidery", "bordar">>],
    [key |-> "serigrafia", syns |-> <<"serigrafía", "serigrafia", "screen", "silk", "impresión">>],
    [key |-> "transfer", syns |-> <<"transfer", "vinilo", "termoadhesivo">>],
    [key |-> "sublimacion", syns |-> <<"sublimación", "sublimacion", "subli">>],
    [key |-> "dtf", syns |-> <<"dtf", "direct to film">>],
    [key |-> "laser", syns |-> <<"láser", "laser", "grabado">>] >>

cobertura_synonyms == <<
    [key |-> "lleno", syns |-> <<"lleno", "relleno", "full", "completo", "sólido">>],
    [key |-> "hueco", syns |-> <<"hueco", "outline", "contorno", "vacío", "solo borde">>] >>

posicion_synonyms == <<
    [key |-> "pecho", syns |-> <<"pecho", "frontal", "delantero", "front">>],
    [key |-> "espalda", syns |-> <<"espalda", "espaldar", "trasero", "back">>],
    [key |-> "manga", syns |-> <<"manga", "brazo", "sleeve">>],
    [key |-> "lateral", syns |-> <<"lateral", "lado", "side">>] >>

\* any(syn in description_lower for syn in synonyms)
AnySynonym(syns, text) == \E j \in 1..Len(syns) : Contains(text, syns[j])

\* the key of the first hit, None without one
FirstKey(dict, hits) == IF hits = {} THEN None ELSE dict[SetMin(hits)].key

\* a loop without its break: the last set with a synonym in the text wins
DetectFirst_LastSet(dict, text) ==
    LET hits == {k \in 1..Len(dict) : AnySynonym(dict[k].syns, text)}
    IN  IF hits = {} THEN None ELSE dict[CHOOSE k \in hits : \A j \in hits : j <= k].key

\* the "for key, synonyms in dict.items(): if any(...): detected = key; break" loop
DetectFirst(dict, text) ==
    FirstKey(dict, {k \in 1..Len(dict) : AnySynonym(dict[k].syns, text)})

dimension_patterns == <<
    <<NUM, LIT("x"), NUM, WS, LIT("cm")>>,
    <<NUM, LIT("×"), NUM, WS, LIT("cm")>>,
    <<NUM, WS, LIT("x"), WS, NUM>>,
    <<NUM, WS, LIT("×"), WS, NUM>>,
    <<NUM, WS, LIT("por"), WS, NUM>>,
    <<LIT("área"), WS, LIT("de"), WS, NUM>>,
    <<LIT("superficie"), WS, NUM>> >>

budget_patterns == <<
    <<LIT("hasta"), WS, NUM, WS, LIT("€")>>,
    <<LIT("máximo"), WS, NUM, WS, LIT("euros")>>,
    <<LIT("budget"), WS, NUM>>,
    <<LIT("presupuesto"), WS, NUM>> >>

\* the first match of a list of search results
FirstMatch(found) ==
    IF \A k \in 1..Len(found) : ~found[k].ok THEN NoMatch
    ELSE found[SetMin({k \in 1..Len(found) : found[k].ok})]

\* the first pattern of the list that matches, as re.search's groups
FirstPatternMatch(patterns, text) ==
    FirstMatch(<<>> \o [k \in 1..Len(patterns) |-> re_search(patterns[k], text)])

\* the ParsedRequest built from the detected values; dim and bud are the
\* matches of the dimension and budget patterns
ParsedRequest(detected_categoria, quantity, perfil, tecnica, dim, cobertura, posicion, bud) ==
    [categoria |-> IF detected_categoria = None THEN "general" ELSE detected_categoria,
     cantidad |-> quantity,
     perfil |-> perfil,
     tecnica |-> tecnica,
     area_cm2 |-> IF dim.ok /\ Len(dim.groups) = 2 THEN dim.groups[1] * dim.groups[2]
                  ELSE IF dim.ok /\ Len(dim.groups) = 1 THEN dim.groups[1] ELSE NoNumber,
     cobertura |-> cobertura,
     dimensiones |-> IF dim.ok /\ Len(dim.groups) = 2
                     THEN IntToStr(dim.groups[1]) \o "x" \o IntToStr(dim.groups[2]) \o "cm"
                     ELSE None,
     posicion |-> posicion,
     presupuesto_maximo |-> IF bud.ok THEN bud.groups[1] ELSE NoNumber]

\* the detection steps on the lowered description
ParseLowered(description_lower, quantity) ==
    ParsedRequest(DetectFirst(categoria_synonyms, description_lower),
                  quantity,
                  DetectFirst(perfil_synonyms, description_lower),
                  DetectFirst(tecnica_synonyms, description_lower),
                  FirstPatternMatch(dimension_patterns, description_lower),
                  DetectFirst(cobertura_synonyms, description_lower),
                  DetectFirst(posicion_synonyms, description_lower),
                  FirstPatternMatch(budget_patterns, description_lower))

parse_client_request(description, quantity) == ParseLowered(Lower(description), quantity)

\* ------------------------------------------------------------------------
\* Values of the open characteristics mapping (Dict[str, Any]): a string, a
\* number or a nested mapping.  A mapping is a function from keys to values.
\* ------------------------------------------------------------------------
SV(s) == [t |-> "str", s |-> s]
NV(n) == [t |-> "num", n |-> n]
MV(m) == [t |-> "map", m |-> m]
EmptyMap == [k \in {} |-> SV("")]

\* Python truth value
Truthy(v) ==
    CASE v.t = "str" -> v.s # ""
      [] v.t = "num" -> v.n # 0
      [] v.t = "map" -> DOMAIN v.m # {}

\* dict.get(key, default)
Get(m, key, default) == IF key \in DOMAIN m THEN m[key] ELSE default

\* the outcome of an evaluation that may raise: the value, or the exception
Ok(v) == [raised |-> None, val |-> v]
Raise(e) == [raised |-> e, val |-> RZero]

\* str.strip()
RECURSIVE Strip(_)
Strip(s) ==
    IF Len(s) = 0 THEN s
    ELSE IF IsSpace(CharAt(s, 1)) THEN Strip(SubSeq(s, 2, Len(s)))
    ELSE IF IsSpace(CharAt(s, Len(s))) THEN Strip(SubSeq(s, 1, Len(s) - 1))
    ELSE s

\* int(v) for a characteristics value: a number converts, a string converts
\* when it is an optionally signed run of digits (blanks around it
\* allowed), anything else raises
IntOf(v) ==
    CASE v.t = "num" -> [raised |-> None, n |-> v.n]
      [] v.t = "map" -> [raised |-> "TypeError", n |-> 0]
      [] v.t = "str" ->
           LET st == Strip(v.s)
               signed == Len(st) > 0 /\ CharAt(st, 1) \in {"-", "+"}
               body == IF signed THEN SubSeq(st, 2, Len(st)) ELSE st
           IN  IF Len(body) > 0 /\ DigitRun(body, 1) = Len(body)
               THEN [raised |-> None,
                     n |-> IF signed /\ CharAt(st, 1) = "-" THEN -StrToInt(body) ELSE StrToInt(body)]
               ELSE [raised |-> "ValueError", n |-> 0]

\* ------------------------------------------------------------------------
\* calculate_product_score
\* ------------------------------------------------------------------------
w_precio == R(3, 10)
w_perfil == R(25, 100)
w_compatibilidad == R(2, 10)
w_stock == R(1, 10)
w_plazo == R(1, 10)
w_sostenibilidad == R(5, 100)

\* product.get('characteristics', {})
CharacteristicsOf(product) == Get(product, "characteristics", EmptyMap)

\* a price factor that grows with the price
PrecioScore_Rising(product) ==
    LET precio_base == Get(product, "base_price", RInt(999))
    IN  IF RLt(RZero, precio_base)
        THEN Ok(RMul(w_precio, RMax(RZero, RDiv(precio_base, RInt(50)))))
        ELSE Ok(RZero)

\* 1. price: only a price > 0 is normalised and scored
PrecioScore(product) ==
    LET precio_base == Get(product, "base_price", RInt(999))
    IN  IF RLt(RZero, precio_base)
        THEN Ok(RMul(w_precio, RMax(RZero, RSub(RInt(1), RDiv(precio_base, RInt(50))))))
        ELSE Ok(RZero)

perfil_order == <<"bajo", "medio", "alto">>
\* list.index(x): the position, or ValueError
PerfilIndex(x) ==
    IF \E k \in 1..3 : perfil_order[k] = x
    THEN [raised |-> None, n |-> CHOOSE k \in 1..3 : perfil_order[k] = x]
    ELSE [raised |-> "ValueError", n |-> 0]

\* 2. quality tier
PerfilScore(product, parsed) ==
    LET chars == CharacteristicsOf(product)
        has == "characteristics" \in DOMAIN product /\ DOMAIN chars # {}
        raw == Get(chars, "perfil_calidad", SV(""))
    IN  IF has /\ raw.t # "str" THEN Raise("AttributeError")
        ELSE LET product_perfil == IF has THEN Lower(raw.s) ELSE ""
             IN  IF parsed.perfil # None /\ parsed.perfil # "" /\ product_perfil # ""
                 THEN IF Lower(parsed.perfil) = product_perfil
                      THEN Ok(RMul(w_perfil, RInt(1)))
                      ELSE LET a == PerfilIndex(parsed.perfil)
                               b == PerfilIndex(product_perfil)
                           IN  IF a.raised # None THEN Raise(a.raised)
                               ELSE IF b.raised # None THEN Raise(b.raised)
                               ELSE IF Abs(a.n - b.n) = 1
                                    THEN Ok(RMul(w_perfil, R(1, 2)))
                                    ELSE Ok(RZero)
                 ELSE Ok(RZero)

\* 3. technique compatibility
TecnicaScore(product, parsed) ==
    LET chars == CharacteristicsOf(product)
        impresion == Get(chars, "impresion", MV(EmptyMap))
    IN  IF impresion.t # "map" THEN Raise("AttributeError")
        ELSE LET first == Get(impresion.m, "tecnica_grabacion", SV(""))
                 print_codes == IF Truthy(first) THEN first
                                ELSE Get(chars, "print_codes", SV(""))
             IN  IF parsed.tecnica # None /\ parsed.tecnica # "" /\ Truthy(print_codes)
                 THEN IF print_codes.t # "str" THEN Raise("AttributeError")
                      ELSE IF Contains(Lower(print_codes.s), Lower(parsed.tecnica))
                           THEN Ok(RMul(w_compatibilidad, RInt(1)))
                      ELSE IF Contains(parsed.tecnica, "bordado")
                              /\ Contains(Lower(print_codes.s), "bordado")
                           THEN Ok(RMul(w_compatibilidad, RInt(1)))
                      ELSE Ok(RZero)
                 ELSE Ok(RZero)

\* a stock factor that reads the key without a default
StockScore_Required(product) ==
    IF "stock_disponible" \notin DOMAIN CharacteristicsOf(product) THEN Raise("KeyError")
    ELSE LET stock == CharacteristicsOf(product)["stock_disponible"]
         IN  IF stock.t # "str" THEN Raise("AttributeError")
             ELSE IF Contains(Lower(stock.s), "si") THEN Ok(RMul(w_stock, RInt(1)))
             ELSE IF Contains(Lower(stock.s), "bajo") THEN Ok(RMul(w_stock, R(1, 2)))
             ELSE Ok(RZero)

\* 4. stock
StockScore(product) ==
    LET stock == Get(CharacteristicsOf(product), "stock_disponible", SV(""))
    IN  IF stock.t # "str" THEN Raise("AttributeError")
        ELSE IF Contains(Lower(stock.s), "si") THEN Ok(RMul(w_stock, RInt(1)))
        ELSE IF Contains(Lower(stock.s), "bajo") THEN Ok(RMul(w_stock, R(1, 2)))
        ELSE Ok(RZero)

\* 5. lead time; every exception of the conversion is swallowed
PlazoScore(product) ==
    LET plazo == Get(CharacteristicsOf(product), "plazo_entrega_dias", NV(30))
        conv == IF Truthy(plazo) THEN IntOf(plazo) ELSE [raised |-> None, n |-> 30]
    IN  IF conv.raised # None THEN Ok(RZero)
        ELSE Ok(RMul(w_plazo, RMax(RZero, RSub(RInt(1), R(conv.n, 30)))))

\* 6. sustainability
SostenibilidadScore(product) ==
    LET sostenibilidad == Get(CharacteristicsOf(product), "sostenibilidad", SV(""))
    IN  IF Truthy(sostenibilidad) THEN Ok(RMul(w_sostenibilidad, RInt(1))) ELSE Ok(RZero)

\* the factors in the order the function evaluates them
ScoreFactors(product, parsed) ==
    << PrecioScore(product), PerfilScore(product, parsed), TecnicaScore(product, parsed),
       StockScore(product), PlazoScore(product), SostenibilidadScore(product) >>

\* the sum of the factors, or the first exception raised on the way
SumFactors(f) ==
    LET bad == {k \in 1..Len(f) : f[k].raised # None}
    IN  IF bad # {} THEN Raise(f[SetMin(bad)].raised)
        ELSE Ok(RSum([k \in 1..Len(f) |-> f[k].val]))

calculate_product_score(product, parsed) == SumFactors(ScoreFactors(product, parsed))

\* ------------------------------------------------------------------------
\* upload_catalog: cells, headers and price extraction
\* ------------------------------------------------------------------------
FV(r) == [t |-> "float", r |-> r]

\* a missing cell (pandas NaN); every other cell is given by its str() text
NaN == "<NaN>"
notna(cell) == cell # NaN

\* s.replace(c, '') for each character c of the set
RECURSIVE RemoveChars(_, _)
RemoveChars(s, cs) ==
    IF Len(s) = 0 THEN ""
    ELSE (IF CharAt(s, 1) \in cs THEN "" ELSE CharAt(s, 1))
         \o RemoveChars(SubSeq(s, 2, Len(s)), cs)

\* s.replace(a, b) for single characters
RECURSIVE ReplaceChar(_, _, _)
ReplaceChar(s, a, b) ==
    IF Len(s) = 0 THEN ""
    ELSE (IF CharAt(s, 1) = a THEN b ELSE CharAt(s, 1))
         \o ReplaceChar(SubSeq(s, 2, Len(s)), a, b)

\* s.count(c)
CountChar(s, c) == Cardinality({i \in 1..Len(s) : CharAt(s, i) = c})

StartsWith(s, t) == Len(t) <= Len(s) /\ SubSeq(s, 1, Len(t)) = t

RECURSIVE Pow10(_)
Pow10(k) == IF k = 0 THEN 1 ELSE 10 * Pow10(k - 1)

\* float(s) for decimal notation (an optional sign, digits with at most one
\* point and at least one digit) and for the words inf and nan; anything
\* else is a ValueError.  Texts with an exponent or with underscores between
\* digits are not among the cells of this model.
NotAFloat == [ok |-> FALSE, r |-> RZero]

\* the digits before and after the point
FloatOfDigits(neg, ip, fp) ==
    IF DigitRun(ip, 1) = Len(ip) /\ DigitRun(fp, 1) = Len(fp) /\ Len(ip) + Len(fp) > 0
    THEN [ok |-> TRUE,
          r |-> RMul(RInt(IF neg THEN -1 ELSE 1),
                     R(StrToInt(ip) * Pow10(Len(fp)) + StrToInt(fp), Pow10(Len(fp))))]
    ELSE NotAFloat

\* the text after the sign, with the positions of its points
FloatOfBody(neg, body, dots) ==
    IF Cardinality(dots) > 1 THEN NotAFloat
    ELSE IF dots = {} THEN FloatOfDigits(neg, body, "")
    ELSE FloatOfDigits(neg, SubSeq(body, 1, SetMin(dots) - 1),
                       SubSeq(body, SetMin(dots) + 1, Len(body)))

\* float() also reads the words inf, infinity and nan in any case, signed or
\* not: the infinities are the records [n |-> 1, d |-> 0] and
\* [n |-> -1, d |-> 0], which RLt and RLe order above and below every
\* number, and nan is [n |-> 0, d |-> 0], which RLt puts neither below nor
\* above any number
Infinity(neg) == [n |-> IF neg THEN -1 ELSE 1, d |-> 0]
NaNFloat == [n |-> 0, d |-> 0]

FloatOfUnsigned(neg, body) ==
    IF Lower(body) \in {"inf", "infinity"} THEN [ok |-> TRUE, r |-> Infinity(neg)]
    ELSE IF Lower(body) = "nan" THEN [ok |-> TRUE, r |-> NaNFloat]
    ELSE FloatOfBody(neg, body, {i \in 1..Len(body) : CharAt(body, i) = "."})

FloatOfStripped(st) ==
    IF Len(st) > 0 /\ CharAt(st, 1) \in {"-", "+"}
    THEN FloatOfUnsigned(CharAt(st, 1) = "-", SubSeq(st, 2, Len(st)))
    ELSE FloatOfUnsigned(FALSE, st)

ParseFloat(str) == FloatOfStripped(Strip(str))

\* "return float(price_str)" with "except (ValueError, TypeError): return 0.0"
FloatOrZero(f) == IF f.ok THEN f.r ELSE RZero

\* the decimal separators of the cleaned text, then float()
PriceOfText(s1) ==
    FloatOrZero(ParseFloat(
        IF Contains(s1, ",") /\ Contains(s1, ".")
        THEN ReplaceChar(RemoveChars(s1, {"."}), ",", ".")
        ELSE IF Contains(s1, ",") /\ CountChar(s1, ",") = 1
             THEN ReplaceChar(s1, ",", ".")
             ELSE s1))

\* extract_price(col, row), given the cell row[col] (NaN when col is None)
extract_price(cell) ==
    IF notna(cell)
    THEN PriceOfText(Strip(RemoveChars(RemoveChars(cell, {"€", "$", "£"}), {" "})))
    ELSE RZero

Range(seq) == {seq[k] : k \in 1..Len(seq)}

\* a sequence with every element evaluated
Evaluated(seq) == <<>> \o seq

column_mappings == [
    reference |-> <<"ref", "referencia", "codigo", "code", "ref.", "reference">>,
    name |-> <<"articulo", "artículo", "nombre", "name", "producto", "item">>,
    description |-> <<"descripcion", "descripción", "desc", "detalle", "description">>,
    category |-> <<"categoria", "categoría", "category", "familia", "tipo">>,
    subcategory |-> <<"subcategoria", "subcategoría", "subcategory", "subtipo">>,
    depth |-> <<"profundidad", "profundidas", "depth", "fondo">>,
    weight |-> <<"peso", "weight", "gr", "gramos">>,
    width |-> <<"ancho", "width", "anchura">>,
    height |-> <<"alto", "height", "altura">>,
    price_500_minus |-> <<"-500", "menos_500", "price_500_minus", "<500">>,
    price_500_plus |-> <<"+500", "mas_500", "price_500_plus", "500+", ">500">>,
    price_2000_plus |-> <<"+2000", "mas_2000", "price_2000_plus", "2000+", ">2000">>,
    price_5000_plus |-> <<"+5000", "mas_5000", "price_5000_plus", "5000+", ">5000">>,
    price_base |-> <<"precio_confidencial", "precio confidencial", "precio", "price", "coste", "cost", "valor", "importe", "pvp", "tarifa">>,
    print_code |-> <<"print_code", "print code", "max.colores", "técnica de grabación", "tecnica_grabacion", "colores">>,
    max_print_area |-> <<"medida_máxima_de_grabación", "medida maxima grabacion", "max_print_area", "area_impresion">>,
    image_url |-> <<"url_imagen", "foto", "image_url", "imagen", "photo", "picture", "url_foto", "link_imagen">> ]

\* the first header, in the file's order, that is one of the synonyms
find_column_HeaderOrder(field_mappings, columns) ==
    LET hits == {k \in 1..Len(columns) : columns[k] \in Range(field_mappings)}
    IN  IF hits = {} THEN None ELSE columns[SetMin(hits)]

\* find_column(field_mappings) over the frame's normalised headers
find_column(field_mappings, columns) ==
    LET hits == {k \in 1..Len(field_mappings) : field_mappings[k] \in Range(columns)}
    IN  IF hits = {} THEN None ELSE field_mappings[SetMin(hits)]

\* the frame with the normalised headers norm: the rows that are not all
\* NaN under their 0-based positions in the file, without the '^unnamed'
\* columns
CleanNormalised(frame, norm, labels) ==
    [columns |-> SelectSeq(norm, LAMBDA c : ~StartsWith(c, "unnamed")),
     empty |-> labels = <<>>,
     rows |-> Evaluated([j \in 1..Len(labels) |->
                 [label |-> labels[j] - 1,
                  fault |-> frame.rows[labels[j]].fault,
                  cell |-> [c \in {norm[k] : k \in {i \in 1..Len(norm) :
                                                       ~StartsWith(norm[i], "unnamed")}} |->
                               frame.rows[labels[j]].cells[
                                   SetMin({k \in 1..Len(norm) : norm[k] = c})]]]])]

\* the frame after dropna(how='all'), header normalisation and removal of
\* the '^unnamed' columns: row labels are the 0-based positions in the file
CleanFrame(frame) ==
    CleanNormalised(frame,
        Evaluated([k \in 1..Len(frame.columns) |-> Strip(Lower(frame.columns[k]))]),
        SelectSeq([i \in 1..Len(frame.rows) |-> i],
                  LAMBDA i : \E k \in 1..Len(frame.columns) :
                                notna(frame.rows[i].cells[k])))

\* row[col] with pd.notna folded in: NaN when the field has no column
CellOf(row, col) == IF col = None THEN NaN ELSE row.cell[col]

\* the resolved column of every canonical field
ResolveColumns(columns) ==
    [f \in DOMAIN column_mappings |-> find_column(column_mappings[f], columns)]

\* pd.to_numeric(df[col], errors='coerce').dropna()
NumericValues(df, col) ==
    {f.r : f \in {g \in {ParseFloat(CellOf(df.rows[j], col)) :
                           j \in {i \in 1..Len(df.rows) : notna(CellOf(df.rows[i], col))}} :
                     g.ok /\ g.r # NaNFloat}}

\* "min_val >= 0 and max_val <= 10000 and min_val < max_val" on a non-empty
\* column of numbers
IsPriceRange(vals) ==
    /\ vals # {}
    /\ \E lo \in vals, hi \in vals :
          /\ \A v \in vals : RLe(lo, v) /\ RLe(v, hi)
          /\ RLe(RZero, lo) /\ RLe(hi, RInt(10000)) /\ RLt(lo, hi)

\* detected_price_cols: scanned only when no volume-tier column was resolved
detected_price_cols(df, cols) ==
    IF /\ cols.price_500_minus = None /\ cols.price_500_plus = None
       /\ cols.price_2000_plus = None /\ cols.price_5000_plus = None
    THEN SelectSeq(df.columns, LAMBDA col : IsPriceRange(NumericValues(df, col)))
    ELSE <<>>

\* ------------------------------------------------------------------------
\* upload_catalog: extraction of one row
\* ------------------------------------------------------------------------
\* the four volume tiers in the order the dictionary is filled
volume_keys == <<"menos_500", "mas_500", "mas_2000", "mas_5000">>
volume_fields == <<"price_500_minus", "price_500_plus", "price_2000_plus", "price_5000_plus">>

VolumePrices(row, cols) ==
    Evaluated([k \in 1..4 |-> extract_price(CellOf(row, cols[volume_fields[k]]))])

\* The pricing of a row is [volume_pricing, base_price], built in three steps.
\* prices = [p for p in volume_pricing.values() if p > 0];
\* base_price = prices[0] if prices else 0.0
\* the last tier with a price instead of the first
TierPricing_LastTier(vp) ==
    [volume_pricing |-> [k \in Range(volume_keys) |->
                            FV(vp[CHOOSE j \in 1..4 : volume_keys[j] = k])],
     base_price |-> IF \A k \in 1..4 : ~RLt(RZero, vp[k]) THEN RZero
                    ELSE vp[SetMax({k \in 1..4 : RLt(RZero, vp[k])})]]

TierPricing(vp) ==
    [volume_pricing |-> [k \in Range(volume_keys) |->
                            FV(vp[CHOOSE j \in 1..4 : volume_keys[j] = k])],
     base_price |-> IF \A k \in 1..4 : ~RLt(RZero, vp[k]) THEN RZero
                    ELSE vp[SetMin({k \in 1..4 : RLt(RZero, vp[k])})]]

\* base_price = extract_price(price_base_col, row), recorded under
\* 'precio_base' only when it is > 0
WithExplicit(pricing, b) ==
    [volume_pricing |-> IF RLt(RZero, b)
                        THEN [k \in {"precio_base"} |-> FV(b)] @@ pricing.volume_pricing
                        ELSE pricing.volume_pricing,
     base_price |-> b]

\* the explicit base-price column is read only while base_price == 0.0
ExplicitPricing(pricing, row, cols) ==
    IF pricing.base_price = RZero /\ cols.price_base # None
    THEN WithExplicit(pricing, extract_price(CellOf(row, cols.price_base)))
    ELSE pricing

\* the loop over detected_price_cols: every non-missing candidate overwrites
\* base_price, the first one giving a price > 0 is recorded under
\* 'precio_detectado' and ends the loop
RECURSIVE DetectedLoop(_, _, _)
WithDetected(pricing, row, detected, b) ==
    IF RLt(RZero, b)
    THEN [volume_pricing |-> [k \in {"precio_detectado"} |-> FV(b)]
                             @@ pricing.volume_pricing,
          base_price |-> b]
    ELSE DetectedLoop([pricing EXCEPT !.base_price = b], row, Tail(detected))

DetectedLoop(pricing, row, detected) ==
    IF detected = <<>> THEN pricing
    ELSE IF notna(CellOf(row, Head(detected)))
         THEN WithDetected(pricing, row, detected,
                           extract_price(CellOf(row, Head(detected))))
         ELSE DetectedLoop(pricing, row, Tail(detected))

DetectedPricing(pricing, row, detected) ==
    IF pricing.base_price = RZero /\ detected # <<>>
    THEN DetectedLoop(pricing, row, detected)
    ELSE pricing

RowPricing(row, cols, detected) ==
    DetectedPricing(ExplicitPricing(TierPricing(VolumePrices(row, cols)), row, cols),
                    row, detected)

\* a stripped text field with its default
TextField(row, col, default) ==
    IF notna(CellOf(row, col)) THEN Strip(CellOf(row, col)) ELSE default

\* an entry that exists only when the cell is present
OptionalEntry(key, row, col) ==
    IF notna(CellOf(row, col)) THEN [k \in {key} |-> SV(CellOf(row, col))] ELSE EmptyMap

\* a stripped text is kept only when it starts with http
UrlOrNone(u) ==
    IF u # "" /\ (StartsWith(u, "http") \/ StartsWith(u, "https")) THEN u ELSE None

ImageUrl(row, col) ==
    IF notna(CellOf(row, col)) THEN UrlOrNone(Strip(CellOf(row, col))) ELSE None

\* the columns consumed by a mapped field (price_base is not in the list)
mapped_fields == {"reference", "name", "description", "category", "subcategory",
                  "depth", "weight", "width", "height",
                  "price_500_minus", "price_500_plus", "price_2000_plus", "price_5000_plus",
                  "print_code", "max_print_area", "image_url"}

\* the entries the code writes itself
Synthesized(row, cols, volume_pricing) ==
    [k \in {"referencia"} |-> SV(TextField(row, cols.reference, ""))]
    @@ [k \in {"subcategoria"} |-> SV(TextField(row, cols.subcategory, ""))]
    @@ OptionalEntry("profundidad", row, cols.depth)
    @@ OptionalEntry("peso", row, cols.weight)
    @@ OptionalEntry("ancho", row, cols.width)
    @@ OptionalEntry("alto", row, cols.height)
    @@ [k \in {"precios_volumen"} |-> MV(volume_pricing)]
    @@ [k \in {"impresion"} |->
           MV(OptionalEntry("tecnica_grabacion", row, cols.print_code)
              @@ OptionalEntry("medida_maxima_grabacion", row, cols.max_print_area))]

\* the unmapped columns with a value are folded in under their header
Characteristics(row, df, cols, volume_pricing) ==
    [c \in {h \in Range(df.columns) :
               h \notin {cols[f] : f \in mapped_fields} /\ notna(row.cell[h])} |->
        SV(row.cell[c])]
    @@ Synthesized(row, cols, volume_pricing)

\* the Product built from the row and its pricing
ProductOfRow(row, df, cols, user_id, pricing) ==
    [name |-> TextField(row, cols.name, "Sin nombre"),
     description |-> TextField(row, cols.description, ""),
     base_price |-> pricing.base_price,
     category |-> TextField(row, cols.category, "General"),
     characteristics |-> Characteristics(row, df, cols, pricing.volume_pricing),
     image_url |-> ImageUrl(row, cols.image_url),
     user_id |-> user_id]

\* the Product built from one row (its id is drawn when it is constructed)
ExtractRow(row, df, cols, detected, user_id) ==
    ProductOfRow(row, df, cols, user_id, RowPricing(row, cols, detected))

\* ------------------------------------------------------------------------
\* upload_catalog: the whole file.  A file is [extension, readable, frame];
\* frame = [columns, rows], a row = [cells, fault], fault being the message
\* of an exception raised while that row is extracted (None: no exception).
\* ------------------------------------------------------------------------
allowed_extensions == {"xlsx", "xls", "csv"}

\* row errors numbered without the header offset
ProcessRows_NoHeaderOffset(df, cols, detected, user_id) ==
    LET okRows == SelectSeq(df.rows, LAMBDA r : r.fault = None)
        badRows == SelectSeq(df.rows, LAMBDA r : r.fault # None)
    IN  [products |-> Evaluated([k \in 1..Len(okRows) |->
                          ExtractRow(okRows[k], df, cols, detected, user_id)]),
         errors |-> Evaluated([k \in 1..Len(badRows) |->
                        "Row " \o IntToStr(badRows[k].label + 1) \o ": " \o badRows[k].fault])]

\* the rows of the cleaned frame whose extraction succeeded / raised
ProcessRows(df, cols, detected, user_id) ==
    LET okRows == SelectSeq(df.rows, LAMBDA r : r.fault = None)
        badRows == SelectSeq(df.rows, LAMBDA r : r.fault # None)
    IN  [products |-> Evaluated([k \in 1..Len(okRows) |->
                          ExtractRow(okRows[k], df, cols, detected, user_id)]),
         errors |-> Evaluated([k \in 1..Len(badRows) |->
                        "Row " \o IntToStr(badRows[k].label + 2) \o ": " \o badRows[k].fault])]

FatalFileError ==
    [status |-> 400, products |-> <<>>, errors |-> <<>>, count |-> 0, inserted |-> FALSE]

UploadRows(res) ==
    [status |-> 200, products |-> res.products, errors |-> res.errors,
     count |-> Len(res.products), inserted |-> res.products # <<>>]

UploadResolved(df, cols, user_id) ==
    UploadRows(ProcessRows(df, cols, detected_price_cols(df, cols), user_id))

UploadFrame(df, user_id) ==
    IF df.empty THEN FatalFileError
    ELSE UploadResolved(df, ResolveColumns(df.columns), user_id)

\* The parsing of the file's bytes is the work of pandas; a file carries what
\* each call returns on it.  readable/frame: the first call (pd.read_excel,
\* or pd.read_csv with its defaults) returns frame, or raises the exception
\* named by failure.  A CSV file whose first call raises carries in retries
\* the outcomes [raised, frame] of the six later calls, in the order the
\* code makes them: sep=None with the python engine, the separators
\* ',', ';', tab and '|', and sep=None again.
first_read(file) ==
    [raised |-> IF file.readable THEN None ELSE file.failure, frame |-> file.frame]

sniff_retry == 1
separators == <<",", ";", "\t", "|">>
last_retry == 6

\* "for sep in [...]: try ... if len(df.columns) > 1: break / except: continue
\* / else: df = pd.read_csv(..., sep=None, ...)"; the retry of separators[k]
\* is retries[k + 1]
RECURSIVE separator_loop(_, _)
separator_loop(retries, k) ==
    IF k > Len(separators) THEN retries[last_retry]
    ELSE IF retries[k + 1].raised = None /\ Len(retries[k + 1].frame.columns) > 1
         THEN retries[k + 1]
         ELSE separator_loop(retries, k + 1)

\* "except pd.errors.ParserError": the second call, and on any exception of
\* it the loop over the separators
parser_error_retry(retries) ==
    IF retries[sniff_retry].raised = None THEN retries[sniff_retry]
    ELSE separator_loop(retries, 1)

\* the CSV branch: only a ParserError of the first call is caught
read_csv(file) ==
    IF file.readable \/ file.failure # "ParserError" THEN first_read(file)
    ELSE parser_error_retry(file.retries)

read_file(file) ==
    IF file.extension = "csv" THEN read_csv(file) ELSE first_read(file)

\* an exception of the read reaches the handler's "except Exception"
UploadRead(read, user_id) ==
    IF read.raised # None THEN FatalFileError
    ELSE UploadFrame(CleanFrame(read.frame), user_id)

upload_catalog(file, user_id) ==
    IF file.extension \notin allowed_extensions THEN FatalFileError
    ELSE UploadRead(read_file(file), user_id)

\* ------------------------------------------------------------------------
\* upload_marking_tariff: the techniques of a PDF or CSV tariff file
\* ------------------------------------------------------------------------
\* parse_marking_pdf returns this table whatever the bytes of the file
predefined_techniques == <<
    [name |-> "Serigrafía - Tampografía A (Piezas Pequeñas)", price |-> R(15, 100),
     description |-> "Piezas de Plástico Pequeñas (Encendedor, Bolígrafos, etc.)"],
    [name |-> "Serigrafía - Tampografía B", price |-> R(16, 100),
     description |-> "Abrebotellas Plástico, Bolígrafos de Metal, Llaveros de Plástico, etc."],
    [name |-> "Serigrafía - Tampografía C", price |-> R(22, 100),
     description |-> "Abrebotellas Metal, Block Notas, Moleskines A-5/A-6, etc."],
    [name |-> "Serigrafía - Tampografía D", price |-> R(30, 100),
     description |-> "Agendas, Alfombrillas, Altavoces Medianos, Block A4-A5, etc."],
    [name |-> "Serigrafía - Tampografía E", price |-> R(32, 100),
     description |-> "Auriculares, Bolsas de Deporte, Paraguas, Toallas (hasta 15cm), etc."],
    [name |-> "Serigrafía - Tampografía F", price |-> R(48, 100),
     description |-> "Aparatos electrónicos, Mochilas sencillas, Mantas grandes, etc."],
    [name |-> "Serigrafía - Tampografía G", price |-> R(75, 100),
     description |-> "Aparatos grandes, Cazadoras, Mochilas dificultosas, Trofeos grandes, etc."],
    [name |-> "Serigrafía Circular", price |-> R(32, 100),
     description |-> "Tazas, bidones, botellas, envases, termos (Aluminio, Metal, Plástico, Vidrio)"],
    [name |-> "Serigrafía Textil", price |-> R(28, 100),
     description |-> "Camiseta, Delantal, Gorra, Pañuelo, Polo (Blanco o colores claros)"],
    [name |-> "Transfer Serigrafía (10x10cm)", price |-> R(68, 100),
     description |-> "Transfer serigrafía hasta 10x10cm"],
    [name |-> "Transfer Serigrafía (16x23cm)", price |-> R(99, 100),
     description |-> "Transfer serigrafía hasta 16x23cm"],
    [name |-> "Transfer Serigrafía (33x23cm)", price |-> R(162, 100),
     description |-> "Transfer serigrafía hasta 33x23cm"],
    [name |-> "Transfer Serigrafía (45x32cm)", price |-> R(221, 100),
     description |-> "Transfer serigrafía hasta 45x32cm"],
    [name |-> "Transfer DTF Full Color (9x10cm)", price |-> R(105, 100),
     description |-> "Transfer DTF Full Color hasta 9x10cm"],
    [name |-> "Transfer DTF Full Color (15x18cm)", price |-> R(130, 100),
     description |-> "Transfer DTF Full Color hasta 15x18cm"],
    [name |-> "Transfer DTF Full Color (28x30cm)", price |-> R(225, 100),
     description |-> "Transfer DTF Full Color hasta 28x30cm"],
    [name |-> "Impresión DTF UV (5x5cm)", price |-> R(90, 100),
     description |-> "Impresión DTF UV hasta 5x5cm"],
    [name |-> "Impresión DTF UV (10x10cm)", price |-> R(150, 100),
     description |-> "Impresión DTF UV hasta 10x10cm"],
    [name |-> "Impresión DTF UV (15x10cm)", price |-> R(210, 100),
     description |-> "Impresión DTF UV hasta 15x10cm"],
    [name |-> "Transfer Digital Vinilo (10x10cm)", price |-> R(150, 100),
     description |-> "Transfer Digital Vinilo hasta 10x10cm"],
    [name |-> "Transfer Digital Vinilo (20x15cm)", price |-> R(265, 100),
     description |-> "Transfer Digital Vinilo hasta 20x15cm"],
    [name |-> "Transfer Digital Vinilo (30x25cm)", price |-> R(400, 100),
     description |-> "Transfer Digital Vinilo hasta 30x25cm"],
    [name |-> "Transfer Sublimación (10x10cm)", price |-> R(120, 100),
     description |-> "Transfer Sublimación hasta 10x10cm"],
    [name |-> "Transfer Sublimación (25x15cm)", price |-> R(150, 100),
     description |-> "Transfer Sublimación hasta 25x15cm"],
    [name |-> "Transfer Sublimación (30x25cm)", price |-> R(170, 100),
     description |-> "Transfer Sublimación hasta 30x25cm"],
    [name |-> "Tazas Sublimación Full Color", price |-> R(200, 100),
     description |-> "Tazas en sublimación a todo color"],
    [name |-> "Láser Fibra/CO² - Piezas Pequeñas", price |-> R(32, 100),
     description |-> "Bolígrafos, Memorias USB, Encendedores, Llaveros, etc."],
    [name |-> "Láser Fibra/CO² - Piezas Medianas", price |-> R(40, 100),
     description |-> "USB, Linternas, Fundas Móvil, Power Bank, etc."],
    [name |-> "Láser Fibra/CO² - Piezas Grandes", price |-> R(48, 100),
     description |-> "Cocteleras, Jarras, Bandejas, Placas Conmemorativas, etc."],
    [name |-> "Digital Full Color (50cm²)", price |-> R(60, 100),
     description |-> "Impresión digital a todo color 50cm²"],
    [name |-> "Digital Full Color (100cm²)", price |-> R(110, 100),
     description |-> "Impresión digital a todo color 100cm²"],
    [name |-> "Adhesivo con Resina (15mm)", price |-> R(53, 100),
     description |-> "Adhesivo con gota de resina 15mm"],
    [name |-> "Adhesivo con Resina (25mm)", price |-> R(65, 100),
     description |-> "Adhesivo con gota de resina 25mm"] >>

parse_marking_pdf(file) == predefined_techniques

technique_col_names == <<"technique", "tecnica", "service", "servicio", "method", "metodo", "type", "tipo">>
price_col_names == <<"price", "precio", "cost", "coste", "tariff", "tarifa", "rate", "valor">>
description_col_names == <<"description", "descripcion", "desc", "details", "detalles", "notes", "notas">>

find_column_csv(possible_names, columns) ==
    IF \A k \in 1..Len(possible_names) : possible_names[k] \notin Range(columns) THEN None
    ELSE possible_names[SetMin({k \in 1..Len(possible_names) :
                                   possible_names[k] \in Range(columns)})]

\* the frame read by pd.read_csv with its headers lowercased and stripped;
\* a row is a function from the headers to the cells
TariffFrame(frame, norm) ==
    [columns |-> norm,
     rows |-> Evaluated([j \in 1..Len(frame.rows) |->
                 [c \in Range(norm) |->
                     frame.rows[j].cells[SetMin({k \in 1..Len(norm) : norm[k] = c})]]])]

NormalisedTariff(frame) ==
    TariffFrame(frame,
        Evaluated([k \in 1..Len(frame.columns) |-> Strip(Lower(frame.columns[k]))]))

\* the dtype pandas infers: object when some cell is not a number, numeric
\* when every cell that is present is one (or none is present)
is_object_dtype(df, col) ==
    \E j \in 1..Len(df.rows) : notna(df.rows[j][col]) /\ ~ParseFloat(df.rows[j][col]).ok
is_numeric_dtype(df, col) == ~is_object_dtype(df, col)

AnyKeyword(keywords, col) == \E w \in keywords : Contains(col, w)

\* the first column passing a test, None when there is none
FirstColumn(df, passing) ==
    IF passing = {} THEN None ELSE df.columns[SetMin(passing)]

\* "if not technique_col": an object column whose header holds a keyword,
\* else the first object column, else the first column
InferTechniqueColumn(df, named) ==
    IF named # None THEN named
    ELSE IF \E k \in 1..Len(df.columns) :
               is_object_dtype(df, df.columns[k])
               /\ AnyKeyword({"tech", "serv", "met", "tip"}, df.columns[k])
    THEN FirstColumn(df, {k \in 1..Len(df.columns) :
                             is_object_dtype(df, df.columns[k])
                             /\ AnyKeyword({"tech", "serv", "met", "tip"}, df.columns[k])})
    ELSE IF \E k \in 1..Len(df.columns) : is_object_dtype(df, df.columns[k])
    THEN FirstColumn(df, {k \in 1..Len(df.columns) : is_object_dtype(df, df.columns[k])})
    ELSE df.columns[1]

\* "if not price_col": a numeric column whose header holds a keyword, else
\* the first numeric column, else None
InferPriceColumn(df, named) ==
    IF named # None THEN named
    ELSE IF \E k \in 1..Len(df.columns) :
               is_numeric_dtype(df, df.columns[k])
               /\ AnyKeyword({"price", "cost", "tar"}, df.columns[k])
    THEN FirstColumn(df, {k \in 1..Len(df.columns) :
                             is_numeric_dtype(df, df.columns[k])
                             /\ AnyKeyword({"price", "cost", "tar"}, df.columns[k])})
    ELSE FirstColumn(df, {k \in 1..Len(df.columns) : is_numeric_dtype(df, df.columns[k])})

\* str(cell): a missing cell prints as 'nan'
StrOf(cell) == IF notna(cell) THEN cell ELSE "nan"

\* float(str(cell).replace(',', '.').replace('€', '').replace('$', '').strip())
TariffFloat(cell) ==
    ParseFloat(Strip(RemoveChars(ReplaceChar(StrOf(cell), ",", "."), {"€", "$"})))

\* " | ".join(parts)
RECURSIVE JoinBar(_)
JoinBar(parts) ==
    IF parts = <<>> THEN ""
    ELSE IF Len(parts) = 1 THEN parts[1]
    ELSE parts[1] \o " | " \o JoinBar(Tail(parts))

\* the description column when it holds a value, else up to three of the
\* other columns as 'header: value'
FirstThree(seq) == SubSeq(seq, 1, IF Len(seq) < 3 THEN Len(seq) ELSE 3)

OtherColumns(df, row, technique_col, price_col) ==
    SelectSeq(FirstThree(SelectSeq(df.columns, LAMBDA c : c \notin {technique_col, price_col})),
              LAMBDA c : notna(row[c]))

PrimaryDescription(df, row, technique_col, price_col, description_col) ==
    IF description_col # None /\ notna(row[description_col])
    THEN Strip(row[description_col])
    ELSE JoinBar([k \in 1..Len(OtherColumns(df, row, technique_col, price_col)) |->
                    OtherColumns(df, row, technique_col, price_col)[k] \o ": "
                    \o row[OtherColumns(df, row, technique_col, price_col)[k]]])

\* the price of a row in the primary pass
PrimaryPrice(row, price_col) ==
    IF price_col # None /\ notna(row[price_col])
    THEN FloatOrZero(TariffFloat(row[price_col]))
    ELSE RZero

\* "if pd.isna(...) or str(...).strip() == '': continue" and
\* "if technique_name and price > 0"
PrimaryEmits(row, technique_col, price_col) ==
    /\ notna(row[technique_col]) /\ Strip(row[technique_col]) # ""
    /\ RLt(RZero, PrimaryPrice(row, price_col))

PrimaryTechnique(name, price, description) ==
    [name |-> name, price |-> price,
     description |-> IF description # "" THEN description
                     ELSE "Técnica extraída del CSV - " \o name]

PrimaryKept(df, kept, technique_col, price_col, description_col) ==
    Evaluated([k \in 1..Len(kept) |->
        PrimaryTechnique(Strip(kept[k][technique_col]),
                         PrimaryPrice(kept[k], price_col),
                         PrimaryDescription(df, kept[k], technique_col, price_col,
                                            description_col))])

PrimaryPass(df, technique_col, price_col, description_col) ==
    PrimaryKept(df,
        SelectSeq(df.rows, LAMBDA row : PrimaryEmits(row, technique_col, price_col)),
        technique_col, price_col, description_col)

\* pd.to_numeric(df[col], errors='coerce') without its NaN
TariffNumbers(df, col) ==
    {f.r : f \in {g \in {ParseFloat(df.rows[j][col]) :
                           j \in {i \in 1..Len(df.rows) : notna(df.rows[i][col])}} :
                     g.ok /\ g.r # NaNFloat}}

\* the first column with numbers whose maximum is below 1000 replaces
\* price_col; price_col stays when there is none
SecondPriceColumn(df, price_col) ==
    IF \E k \in 1..Len(df.columns) :
          /\ TariffNumbers(df, df.columns[k]) # {}
          /\ \A v \in TariffNumbers(df, df.columns[k]) : RLt(v, RInt(1000))
    THEN FirstColumn(df, {k \in 1..Len(df.columns) :
                             /\ TariffNumbers(df, df.columns[k]) # {}
                             /\ \A v \in TariffNumbers(df, df.columns[k]) :
                                    RLt(v, RInt(1000))})
    ELSE price_col

\* a row of the second pass: a float() that raises skips the row
SecondEmits(row, technique_col, price_col) ==
    /\ Strip(StrOf(row[technique_col])) # ""
    /\ TariffFloat(row[price_col]).ok
    /\ RLt(RZero, TariffFloat(row[price_col]).r)

SecondKept(kept, technique_col, price_col) ==
    Evaluated([k \in 1..Len(kept) |->
        [name |-> Strip(StrOf(kept[k][technique_col])),
         price |-> TariffFloat(kept[k][price_col]).r,
         description |-> "Extraído de CSV CIFRA - " \o Strip(StrOf(kept[k][technique_col]))]])

\* the first column names the technique
SecondPass(df, price_col) ==
    IF price_col = None THEN <<>>
    ELSE SecondKept(SelectSeq(df.rows, LAMBDA row : SecondEmits(row, df.columns[1], price_col)),
                    df.columns[1], price_col)

\* "if not techniques": the alternative parsing
WithSecondPass(df, techniques, price_col) ==
    IF techniques # <<>> THEN techniques
    ELSE SecondPass(df, SecondPriceColumn(df, price_col))

TariffColumns(df, technique_col, price_col, description_col) ==
    WithSecondPass(df, PrimaryPass(df, technique_col, price_col, description_col), price_col)

ParseTariffFrame(df) ==
    TariffColumns(df,
        InferTechniqueColumn(df, find_column_csv(technique_col_names, df.columns)),
        InferPriceColumn(df, find_column_csv(price_col_names, df.columns)),
        find_column_csv(description_col_names, df.columns))

\* a file that cannot be decoded or read gives the empty list
parse_marking_csv(file) ==
    IF ~file.readable THEN <<>> ELSE ParseTariffFrame(NormalisedTariff(file.frame))

tariff_extensions == {"pdf", "csv"}

\* the techniques to insert
TariffResult(techniques) ==
    [status |-> 200, techniques |-> techniques, count |-> Len(techniques)]

upload_marking_tariff(file) ==
    IF file.extension \notin tariff_extensions
    THEN [status |-> 400, techniques |-> <<>>, count |-> 0]
    ELSE IF file.extension = "pdf" THEN TariffResult(parse_marking_pdf(file))
    ELSE TariffResult(parse_marking_csv(file))

\* ------------------------------------------------------------------------
\* generate_smart_quote: candidate retrieval, ranking, marking cost, tiers
\* ------------------------------------------------------------------------
Min(a, b) == IF a <= b THEN a ELSE b
Max(a, b) == IF a >= b THEN a ELSE b

\* Python's seq[a:b] for 0 <= a
Slice(seq, a, b) ==
    IF a >= Min(b, Len(seq)) THEN <<>> ELSE SubSeq(seq, a + 1, Min(b, Len(seq)))

\* {"$regex": pattern, "$options": "i"} on a string field, the pattern being a
\* plain word: a case-insensitive substring test
RegexI(text, pattern) == Contains(Lower(text), Lower(pattern))

\* the same on a characteristics value reached by a path: only a string matches
RegexValue(v, pattern) == v.t = "str" /\ RegexI(v.s, pattern)

\* the search_filter of generate_smart_quote
MatchesSmartFilter(product, user_id, parsed) ==
    LET chars == product.characteristics
        impresion == Get(chars, "impresion", SV(""))
    IN  /\ product.user_id = user_id
        /\ (parsed.categoria # "" /\ parsed.categoria # "general") =>
              \/ RegexI(product.category, parsed.categoria)
              \/ RegexI(product.name, parsed.categoria)
              \/ RegexI(product.description, parsed.categoria)
        /\ (parsed.tecnica # None /\ parsed.tecnica # "") =>
              \/ /\ impresion.t = "map"
                 /\ RegexValue(Get(impresion.m, "tecnica_grabacion", MV(EmptyMap)), parsed.tecnica)
              \/ RegexValue(Get(chars, "print_codes", MV(EmptyMap)), parsed.tecnica)

find_limit == 200

\* the items placed at the positions pos
Permute(items, pos) ==
    [k \in 1..Len(items) |-> items[CHOOSE i \in 1..Len(items) : pos[i] = k]]

\* a descending sort that puts the later of two equal scores first
SortByScore_TiesReversed(products, score) ==
    Permute(products,
            Evaluated([i \in 1..Len(products) |->
                Cardinality({j \in 1..Len(products) : RLt(score[i], score[j])})
                + Cardinality({j \in (i + 1)..Len(products) : score[j] = score[i]}) + 1]))

\* scored_products.sort(key=score, reverse=True): descending and stable
SortByScore(products, score) ==
    Permute(products,
            Evaluated([i \in 1..Len(products) |->
                Cardinality({j \in 1..Len(products) : RLt(score[i], score[j])})
                + Cardinality({j \in 1..(i - 1) : score[j] = score[i]}) + 1]))

top_limit == 20

cobertura_multiplier(parsed) ==
    IF parsed.cobertura = "lleno" THEN R(12, 10)
    ELSE IF parsed.cobertura = "hueco" THEN R(8, 10)
    ELSE RInt(1)

\* area bands that exclude their upper limits
area_multiplier_Strict(parsed) ==
    IF parsed.area_cm2 < 15 THEN R(13, 10)
    ELSE IF parsed.area_cm2 < 35 THEN R(11, 10)
    ELSE IF parsed.area_cm2 >= 50 THEN R(9, 10)
    ELSE RInt(1)

area_multiplier(parsed) ==
    IF parsed.area_cm2 <= 15 THEN R(13, 10)
    ELSE IF parsed.area_cm2 <= 35 THEN R(11, 10)
    ELSE IF parsed.area_cm2 >= 50 THEN R(9, 10)
    ELSE RInt(1)

\* "parsed.tecnica == 'bordado' and parsed.area_cm2": an area of 0 is falsy
BordadoBranch(parsed) ==
    parsed.tecnica = "bordado" /\ parsed.area_cm2 # NoNumber /\ parsed.area_cm2 # 0

\* "elif parsed.tecnica and quote_request.marking_techniques"
NamedBranch(parsed, marking_techniques) ==
    ~BordadoBranch(parsed) /\ parsed.tecnica # None /\ parsed.tecnica # ""
    /\ marking_techniques # <<>>

\* marking_cost_per_unit; the embroidery branch logs bordado_base_price, which
\* is unbound when the owner has no embroidery technique
MarkingCost(techniques, user_id, parsed, marking_techniques) ==
    IF BordadoBranch(parsed)
    THEN LET bordado_techniques ==
                 SelectSeq(techniques,
                           LAMBDA t : t.user_id = user_id /\ RegexI(t.name, "bordado"))
         IN  IF bordado_techniques # <<>>
             THEN Ok(RMul(RMul(RMul(bordado_techniques[1].cost_per_unit,
                                    RInt(parsed.area_cm2)),
                               cobertura_multiplier(parsed)),
                          area_multiplier(parsed)))
             ELSE Raise("UnboundLocalError")
    ELSE IF NamedBranch(parsed, marking_techniques)
    THEN LET found == SelectSeq(techniques,
                                LAMBDA t : t.user_id = user_id
                                           /\ t.name \in Range(marking_techniques))
         IN  Ok(RSum([k \in 1..Len(found) |-> found[k].cost_per_unit]))
    ELSE Ok(RZero)

Prices(products) == [k \in 1..Len(products) |-> products[k].base_price]
Average(products) == RDiv(RSum(Prices(products)), RInt(Len(products)))

\* a tier size without its lower limit of 1
tier_size_Floor(top_products) == Len(top_products) \div 3

tier_size(top_products) == Max(1, Len(top_products) \div 3)

BasicProducts(top_products) == Slice(top_products, 0, tier_size(top_products))

\* a medium tier left empty when its slice is empty
MediumProducts_NoFallback(top_products) ==
    LET ts == tier_size(top_products)
    IN  IF 2 * ts <= Len(top_products)
        THEN Slice(top_products, ts, 2 * ts)
        ELSE Slice(top_products, ts, Len(top_products))

MediumProducts(top_products) ==
    LET ts == tier_size(top_products)
        slice == IF 2 * ts <= Len(top_products)
                 THEN Slice(top_products, ts, 2 * ts)
                 ELSE Slice(top_products, ts, Len(top_products))
    IN  IF slice = <<>> THEN BasicProducts(top_products) ELSE slice

PremiumProducts(top_products) ==
    LET ts == tier_size(top_products)
        n == Len(top_products)
    IN  IF n >= 2 * ts THEN Slice(top_products, n - ts, n) ELSE Slice(top_products, 0, 3)

basic_multiplier == R(9, 10)
medium_multiplier == RInt(1)
premium_multiplier == R(12, 10)

\* per-tier figures whose total is the quantity times the rounded unit price
Tier_RoundedUnit(products, fallback_avg, marking_cost_per_unit, multiplier, quantity) ==
    LET avg == IF products # <<>> THEN Average(products) ELSE fallback_avg
        marking == RMul(marking_cost_per_unit, multiplier)
        unit == RAdd(avg, marking)
    IN  [products |-> products, avg_price |-> avg, marking_cost |-> marking,
         total_unit |-> unit, total |-> RMul(Round2(unit), RInt(quantity))]

\* the per-tier figures: products, average unit price, marking cost per unit,
\* total unit price and total, all unrounded
Tier(products, fallback_avg, marking_cost_per_unit, multiplier, quantity) ==
    LET avg == IF products # <<>> THEN Average(products) ELSE fallback_avg
        marking == RMul(marking_cost_per_unit, multiplier)
        unit == RAdd(avg, marking)
    IN  [products |-> products, avg_price |-> avg, marking_cost |-> marking,
         total_unit |-> unit, total |-> RMul(unit, RInt(quantity))]

\* tiers whose medium tier is priced from the basic tier's products
BuildTiers_MediumFromBasic(top_products, marking_cost_per_unit, quantity) ==
    LET basic == Tier(BasicProducts(top_products), RZero,
                      marking_cost_per_unit, basic_multiplier, quantity)
        medium == Tier(BasicProducts(top_products), RMul(basic.avg_price, R(13, 10)),
                       marking_cost_per_unit, medium_multiplier, quantity)
        premium == Tier(PremiumProducts(top_products), RMul(medium.avg_price, R(14, 10)),
                        marking_cost_per_unit, premium_multiplier, quantity)
    IN  [basic |-> basic, medium |-> medium, premium |-> premium]

BuildTiers(top_products, marking_cost_per_unit, quantity) ==
    LET basic == Tier(BasicProducts(top_products), RZero,
                      marking_cost_per_unit, basic_multiplier, quantity)
        medium == Tier(MediumProducts(top_products), RMul(basic.avg_price, R(13, 10)),
                       marking_cost_per_unit, medium_multiplier, quantity)
        premium == Tier(PremiumProducts(top_products), RMul(medium.avg_price, R(14, 10)),
                        marking_cost_per_unit, premium_multiplier, quantity)
    IN  [basic |-> basic, medium |-> medium, premium |-> premium]

\* the tier entry placed in the quote
QuoteTier(tier) ==
    [products |-> Slice(tier.products, 0, 3),
     avg_unit_price |-> Round2(tier.avg_price),
     marking_cost_per_unit |-> Round2(tier.marking_cost),
     total_unit_price |-> Round2(tier.total_unit)]

\* ", ".join(names)
RECURSIVE Join(_)
Join(names) ==
    IF names = <<>> THEN ""
    ELSE IF Len(names) = 1 THEN names[1]
    ELSE names[1] \o ", " \o Join(Tail(names))

MarkingDescription(parsed, marking_techniques) ==
    IF BordadoBranch(parsed)
    THEN "Bordado "
         \o (IF parsed.cobertura # None THEN parsed.cobertura ELSE "estándar") \o " "
         \o (IF parsed.dimensiones # None THEN parsed.dimensiones
             ELSE IntToStr(parsed.area_cm2) \o "cm²")
    ELSE IF NamedBranch(parsed, marking_techniques) THEN Join(marking_techniques)
    ELSE ""

\* The descriptions the specifications below request quotes with: areas of
\* 15, 35, 36, 49 and 50 cm2, no area, an area of 0, no technique, another
\* technique, and a category nobody sells
AreaTexts ==
    <<"gorras con bordado 3x5cm",
      "gorras con bordado 5x7cm lleno",
      "gorras con bordado 6 x 6 hueco",
      "gorras con bordado 7x7cm lleno",
      "gorras con bordado 5x10cm">>

OtherTexts ==
    <<"gorras con bordado",
      "gorras con bordado 0x5cm",
      "Necesito gorras",
      "gorras con serigrafía">>

RequestTexts == AreaTexts \o OtherTexts \o <<"Necesito tazas">>

\* parse_client_request on these descriptions, evaluated once; the quantity
\* is only copied into the result
ParsedTexts ==
    Evaluated([k \in 1..Len(RequestTexts) |-> parse_client_request(RequestTexts[k], 0)])

\* parse_client_request(description, quantity), through ParsedTexts for the
\* descriptions it holds
ParseDescription(description, quantity) ==
    IF \E k \in 1..Len(RequestTexts) : RequestTexts[k] = description
    THEN [ParsedTexts[CHOOSE k \in 1..Len(RequestTexts) : RequestTexts[k] = description]
             EXCEPT !.cantidad = quantity]
    ELSE parse_client_request(description, quantity)

\* what every outcome of the handler records
SmartBase(user_id, req, parsed) ==
    [op |-> "generate_smart_quote", user_id |-> user_id, request |-> req, parsed |-> parsed]

\* 6. the quote and the response
SmartQuoteResult(user_id, req, quote_id, parsed, top_products, marking, tiers) ==
    SmartBase(user_id, req, parsed) @@
    [status |-> 200,
     top_products |-> top_products,
     marking_cost_per_unit |-> marking.val,
     tiers |-> tiers,
     quote |->
       [id |-> quote_id,
        client_name |-> req.client_name,
        products |-> << [request |-> req.product_description,
                         parsed |-> parsed,
                         quantity |-> parsed.cantidad,
                         marking_description |->
                             MarkingDescription(parsed, req.marking_techniques),
                         basic |-> QuoteTier(tiers.basic),
                         medium |-> QuoteTier(tiers.medium),
                         premium |-> QuoteTier(tiers.premium)] >>,
        total_basic |-> Round2(tiers.basic.total),
        total_medium |-> Round2(tiers.medium.total),
        total_premium |-> Round2(tiers.premium.total),
        marking_techniques |-> req.marking_techniques,
        user_id |-> user_id]]

\* 4./5. marking cost, then the three tiers
SmartQuoteTiers(user_id, req, quote_id, parsed, top_products, marking) ==
    IF marking.raised # None
    THEN SmartBase(user_id, req, parsed) @@ [status |-> 500, detail |-> marking.raised]
    ELSE SmartQuoteResult(user_id, req, quote_id, parsed, top_products, marking,
                          BuildTiers(top_products, marking.val, parsed.cantidad))

\* 3. scoring and ranking; an exception of the scoring ends the request
SmartQuoteRanking(techniques, user_id, req, quote_id, parsed, products_cursor, scored) ==
    IF {k \in 1..Len(scored) : scored[k].raised # None} # {}
    THEN SmartBase(user_id, req, parsed) @@
         [status |-> 500,
          detail |-> scored[SetMin({k \in 1..Len(scored) : scored[k].raised # None})].raised]
    ELSE SmartQuoteTiers(user_id, req, quote_id, parsed,
             Slice(SortByScore(products_cursor,
                               Evaluated([k \in 1..Len(scored) |-> scored[k].val])),
                   0, top_limit),
             MarkingCost(techniques, user_id, parsed, req.marking_techniques))

\* candidate retrieval answering no candidate with the message of
\* generate_quote
SmartQuoteCandidates_GenericMessage(techniques, user_id, req, quote_id, parsed, products_cursor) ==
    IF products_cursor = <<>>
    THEN SmartBase(user_id, req, parsed) @@
         [status |-> 404, detail |-> "No products found matching criteria"]
    ELSE SmartQuoteRanking(techniques, user_id, req, quote_id, parsed, products_cursor,
             Evaluated([k \in 1..Len(products_cursor) |->
                           calculate_product_score(products_cursor[k], parsed)]))

\* 2. candidate retrieval; no candidate is a 404 naming category and technique
SmartQuoteCandidates(techniques, user_id, req, quote_id, parsed, products_cursor) ==
    IF products_cursor = <<>>
    THEN SmartBase(user_id, req, parsed) @@
         [status |-> 404,
          detail |-> "No se encontraron productos de tipo '" \o parsed.categoria
                     \o "' compatibles con '"
                     \o (IF parsed.tecnica # None /\ parsed.tecnica # ""
                         THEN parsed.tecnica ELSE "las técnicas solicitadas")
                     \o "'"]
    ELSE SmartQuoteRanking(techniques, user_id, req, quote_id, parsed, products_cursor,
             Evaluated([k \in 1..Len(products_cursor) |->
                           calculate_product_score(products_cursor[k], parsed)]))

SmartQuoteParsed(products, techniques, user_id, req, quote_id, parsed) ==
    SmartQuoteCandidates(techniques, user_id, req, quote_id, parsed,
        Slice(SelectSeq(products, LAMBDA p : MatchesSmartFilter(p, user_id, parsed)),
              0, find_limit))

\* the whole handler on a given store: the response, the quote it inserts
\* (when status = 200) and the values of its local variables
\* 1. the semantic parser
generate_smart_quote(products, techniques, user_id, req, quote_id) ==
    SmartQuoteParsed(products, techniques, user_id, req, quote_id,
                     ParseDescription(req.product_description, req.quantity))

\* ------------------------------------------------------------------------
\* generate_quote: the criteria-based quote
\* ------------------------------------------------------------------------
\* the search_filter of generate_quote
MatchesCriteria(product, user_id, search_criteria) ==
    /\ product.user_id = user_id
    /\ "category" \in DOMAIN search_criteria =>
          RegexI(product.category, search_criteria.category)

\* products.sort(key=base_price): ascending and stable
SortByPrice(products) ==
    Permute(products,
            Evaluated([i \in 1..Len(products) |->
                Cardinality({j \in 1..Len(products) :
                                RLt(products[j].base_price, products[i].base_price)})
                + Cardinality({j \in 1..(i - 1) :
                                  products[j].base_price = products[i].base_price}) + 1]))

\* the sum of cost_per_unit over the owner's techniques that are named
NamedCosts(techniques, user_id, marking_techniques) ==
    IF marking_techniques = <<>> THEN RZero
    ELSE RSum(Evaluated([k \in 1..Len(SelectSeq(techniques, LAMBDA t :
                               t.user_id = user_id /\ t.name \in Range(marking_techniques))) |->
                  SelectSeq(techniques, LAMBDA t :
                      t.user_id = user_id /\ t.name \in Range(marking_techniques))[k]
                      .cost_per_unit]))

BasePrices(products) == Evaluated([k \in 1..Len(products) |-> products[k].base_price])

\* the three slices of the sorted products
CheapestThird(products) == Slice(products, 0, Max(1, Len(products) \div 3))

MiddleThird(products) ==
    IF Max(2, (2 * Len(products)) \div 3) > Max(1, Len(products) \div 3)
    THEN Slice(products, Max(1, Len(products) \div 3), Max(2, (2 * Len(products)) \div 3))
    ELSE Slice(products, 0, 2)

DearestThird(products) ==
    IF Slice(products, Max(2, (2 * Len(products)) \div 3), Len(products)) # <<>>
    THEN Slice(products, Max(2, (2 * Len(products)) \div 3), Len(products))
    ELSE Slice(products, Max(0, Len(products) - 2), Len(products))

QuoteOfCriteria(user_id, quote_create, quote_id, products, marking_costs) ==
    [op |-> "generate_quote", user_id |-> user_id, request |-> quote_create,
     status |-> 200,
     quote |->
       [id |-> quote_id,
        client_name |-> quote_create.client_name,
        products |-> << [basic |-> CheapestThird(products),
                         medium |-> MiddleThird(products),
                         premium |-> DearestThird(products)] >>,
        total_basic |-> RAdd(RSum(BasePrices(CheapestThird(products))), marking_costs),
        total_medium |-> RAdd(RSum(BasePrices(MiddleThird(products))),
                              RMul(marking_costs, R(3, 2))),
        total_premium |-> RAdd(RSum(BasePrices(DearestThird(products))),
                               RMul(marking_costs, RInt(2))),
        marking_techniques |-> quote_create.marking_techniques,
        user_id |-> user_id]]

QuoteFromMatches(techniques, user_id, quote_create, quote_id, matches) ==
    IF matches = <<>>
    THEN [op |-> "generate_quote", user_id |-> user_id, request |-> quote_create,
          status |-> 404, detail |-> "No products found matching criteria"]
    ELSE QuoteOfCriteria(user_id, quote_create, quote_id, SortByPrice(matches),
                         NamedCosts(techniques, user_id, quote_create.marking_techniques))

generate_quote(products, techniques, user_id, quote_create, quote_id) ==
    QuoteFromMatches(techniques, user_id, quote_create, quote_id,
        SelectSeq(products, LAMBDA p :
            MatchesCriteria(p, user_id, quote_create.search_criteria)))

\* ------------------------------------------------------------------------
\* State: the collections of the document store, the source of fresh ids,
\* the last request with its outcome, and the call under evaluation in the
\* specifications of the pure functions (the register coroutines in flight
\* in the specification of register)
\* ------------------------------------------------------------------------
VARIABLES db_users, db_products, db_marking_techniques, db_quotes, next_id, last, eval

vars == <<db_users, db_products, db_marking_techniques, db_quotes, next_id, last, eval>>
store == <<db_users, db_products, db_marking_techniques, db_quotes, next_id, last>>

Users == {"u1", "u2"}

NoCall == [fn |-> "none"]
NoRequest == [op |-> "none"]

\* uuid4 per collection: the k-th id drawn for a collection is k
FreshIds == [products |-> 1, marking_techniques |-> 1, quotes |-> 1]

\* ---- product routes ----
\* POST /products
create_product(user_id, product_create) ==
    /\ db_products' = Append(db_products,
                             [id |-> next_id.products, image_url |-> None,
                              user_id |-> user_id] @@ product_create)
    /\ next_id' = [next_id EXCEPT !.products = @ + 1]
    /\ last' = [op |-> "create_product", user_id |-> user_id, status |-> 200,
                id |-> next_id.products]
    /\ UNCHANGED <<db_users, db_marking_techniques, db_quotes, eval>>

\* the extracted products get their ids and go to the store in one batch
InsertCatalog(user_id, file, res) ==
    /\ db_products' =
          IF res.inserted
          THEN db_products \o [k \in 1..Len(res.products) |->
                                  [id |-> next_id.products + k - 1] @@ res.products[k]]
          ELSE db_products
    /\ next_id' = [next_id EXCEPT !.products = @ + Len(res.products)]
    /\ last' = [op |-> "upload_catalog", user_id |-> user_id, status |-> res.status,
                count |-> res.count, errors |-> res.errors, inserted |-> res.inserted,
                file |-> file]
    /\ UNCHANGED <<db_users, db_marking_techniques, db_quotes, eval>>

\* POST /products/upload-catalog
UploadCatalogRequest(user_id, file) == InsertCatalog(user_id, file, upload_catalog(file, user_id))

\* GET /products: one page of the user's products with the pagination figures
get_products(user_id, page, limit) ==
    LET own == SelectSeq(db_products, LAMBDA p : p.user_id = user_id)
        skip == (page - 1) * limit
        total_pages == (Len(own) + limit - 1) \div limit
    IN  /\ last' = [op |-> "get_products", user_id |-> user_id, status |-> 200,
                    page |-> page, limit |-> limit,
                    products |-> Slice(own, skip, skip + limit),
                    total_pages |-> total_pages, total_count |-> Len(own),
                    has_next |-> page < total_pages, has_prev |-> page > 1]
        /\ UNCHANGED <<db_users, db_products, db_marking_techniques, db_quotes, next_id, eval>>

\* a deletion that looks the product up by its id alone
delete_product_AnyOwner(user_id, product_id) ==
    LET hits == {k \in 1..Len(db_products) : db_products[k].id = product_id}
    IN  /\ db_products' = IF hits = {} THEN db_products
                          ELSE SubSeq(db_products, 1, SetMin(hits) - 1)
                               \o SubSeq(db_products, SetMin(hits) + 1, Len(db_products))
        /\ last' = [op |-> "delete_product", user_id |-> user_id,
                    status |-> IF hits = {} THEN 404 ELSE 200, id |-> product_id]
        /\ UNCHANGED <<db_users, db_marking_techniques, db_quotes, next_id, eval>>

\* DELETE /products/{product_id}
delete_product(user_id, product_id) ==
    LET hits == {k \in 1..Len(db_products) :
                    db_products[k].id = product_id /\ db_products[k].user_id = user_id}
    IN  /\ db_products' = IF hits = {} THEN db_products
                          ELSE SubSeq(db_products, 1, SetMin(hits) - 1)
                               \o SubSeq(db_products, SetMin(hits) + 1, Len(db_products))
        /\ last' = [op |-> "delete_product", user_id |-> user_id,
                    status |-> IF hits = {} THEN 404 ELSE 200, id |-> product_id]
        /\ UNCHANGED <<db_users, db_marking_techniques, db_quotes, next_id, eval>>

\* a deletion of the user's products that takes the user's quotes along
delete_all_products_WithQuotes(user_id) ==
    /\ db_products' = SelectSeq(db_products, LAMBDA p : p.user_id # user_id)
    /\ db_quotes' = SelectSeq(db_quotes, LAMBDA q : q.user_id # user_id)
    /\ last' = [op |-> "delete_all_products", user_id |-> user_id, status |-> 200,
                deleted_count |-> Cardinality({k \in 1..Len(db_products) :
                                                  db_products[k].user_id = user_id})]
    /\ UNCHANGED <<db_users, db_marking_techniques, next_id, eval>>

\* DELETE /products
delete_all_products(user_id) ==
    /\ db_products' = SelectSeq(db_products, LAMBDA p : p.user_id # user_id)
    /\ last' = [op |-> "delete_all_products", user_id |-> user_id, status |-> 200,
                deleted_count |-> Cardinality({k \in 1..Len(db_products) :
                                                  db_products[k].user_id = user_id})]
    /\ UNCHANGED <<db_users, db_marking_techniques, db_quotes, next_id, eval>>

\* ---- marking technique routes ----
\* POST /marking-techniques
create_marking_technique(user_id, technique_create) ==
    /\ db_marking_techniques' = Append(db_marking_techniques,
                                       [id |-> next_id.marking_techniques,
                                        user_id |-> user_id] @@ technique_create)
    /\ next_id' = [next_id EXCEPT !.marking_techniques = @ + 1]
    /\ last' = [op |-> "create_marking_technique", user_id |-> user_id, status |-> 200,
                id |-> next_id.marking_techniques]
    /\ UNCHANGED <<db_users, db_products, db_quotes, eval>>

\* GET /marking-techniques
get_marking_techniques(user_id) ==
    /\ last' = [op |-> "get_marking_techniques", user_id |-> user_id, status |-> 200,
                techniques |-> SelectSeq(db_marking_techniques,
                                         LAMBDA t : t.user_id = user_id)]
    /\ UNCHANGED <<db_users, db_products, db_marking_techniques, db_quotes, next_id, eval>>

\* the extracted techniques get their ids and go to the store in one batch
InsertTariff(user_id, file, res) ==
    /\ db_marking_techniques' =
          db_marking_techniques \o
          [k \in 1..Len(res.techniques) |->
              [id |-> next_id.marking_techniques + k - 1, user_id |-> user_id,
               name |-> res.techniques[k].name,
               cost_per_unit |-> res.techniques[k].price,
               description |-> res.techniques[k].description]]
    /\ next_id' = [next_id EXCEPT !.marking_techniques = @ + Len(res.techniques)]
    /\ last' = [op |-> "upload_marking_tariff", user_id |-> user_id, status |-> res.status,
                count |-> res.count, file |-> file]
    /\ UNCHANGED <<db_users, db_products, db_quotes, eval>>

\* POST /marking-techniques/upload-tariff
UploadMarkingTariffRequest(user_id, file) ==
    InsertTariff(user_id, file, upload_marking_tariff(file))

\* ---- quote routes ----
\* the quote (if any) goes to the store
InsertQuote(res) ==
    /\ db_quotes' = IF res.status = 200 THEN Append(db_quotes, res.quote) ELSE db_quotes
    /\ next_id' = IF res.status = 200 THEN [next_id EXCEPT !.quotes = @ + 1] ELSE next_id
    /\ last' = res
    /\ UNCHANGED <<db_users, db_products, db_marking_techniques, eval>>

\* POST /quotes/generate-smart
GenerateSmartQuoteRequest(user_id, req) ==
    InsertQuote(generate_smart_quote(db_products, db_marking_techniques, user_id, req,
                                     next_id.quotes))

\* POST /quotes/generate
GenerateQuoteRequest(user_id, quote_create) ==
    InsertQuote(generate_quote(db_products, db_marking_techniques, user_id, quote_create,
                               next_id.quotes))

\* list(reversed(seq))
Reversed(seq) == [k \in 1..Len(seq) |-> seq[Len(seq) + 1 - k]]

\* a list of quotes that also holds those of the other users
get_quotes_Everyone(user_id) ==
    /\ last' = [op |-> "get_quotes", user_id |-> user_id, status |-> 200,
                quotes |-> Reversed(db_quotes)]
    /\ UNCHANGED <<db_users, db_products, db_marking_techniques, db_quotes, next_id, eval>>

\* GET /quotes: the user's quotes, the newest first
get_quotes(user_id) ==
    /\ last' = [op |-> "get_quotes", user_id |-> user_id, status |-> 200,
                quotes |-> Reversed(SelectSeq(db_quotes, LAMBDA q : q.user_id = user_id))]
    /\ UNCHANGED <<db_users, db_products, db_marking_techniques, db_quotes, next_id, eval>>

\* GET /quotes/{quote_id}: find_one on id and user_id, 404 without a hit
get_quote(user_id, quote_id) ==
    LET hits == {k \in 1..Len(db_quotes) :
                    db_quotes[k].id = quote_id /\ db_quotes[k].user_id = user_id}
    IN  /\ last' = IF hits = {}
                   THEN [op |-> "get_quote", user_id |-> user_id, id |-> quote_id,
                         status |-> 404, detail |-> "Quote not found"]
                   ELSE [op |-> "get_quote", user_id |-> user_id, id |-> quote_id,
                         status |-> 200, quote |-> db_quotes[SetMin(hits)]]
        /\ UNCHANGED <<db_users, db_products, db_marking_techniques, db_quotes, next_id, eval>>

EmptyStore ==
    /\ db_users = <<>>
    /\ db_products = <<>>
    /\ db_marking_techniques = <<>>
    /\ db_quotes = <<>>
    /\ next_id = FreshIds
    /\ last = NoRequest

\* ------------------------------------------------------------------------
\* Specification of parse_client_request: the text and the quantity are
\* drawn, the function is applied once
\* ------------------------------------------------------------------------
CategoryWords == {"Necesito 50 gorras", "100 Camisetas polo", "Regalos"}
TechniqueWords == {"", " bordadas", " con BORDADO", " serigrafía láser"}
AreaWords == {"", ", área 7x7cm", " de 10 x 8", " área de 12", " 0x5cm"}
DetailWords == {"", " en el pecho, lleno", " contorno en la espalda hasta 300 €"}

ParseTexts ==
    {c \o t \o a \o d : c \in CategoryWords, t \in TechniqueWords,
                        a \in AreaWords, d \in DetailWords}
    \cup {"Necesito 50 gorras bordadas en el pecho, área 7x7cm, lleno",
          "Tazas o GORRAS, premium o barato, serigrafía o bordado, contorno o lleno, espalda o pecho",
          "Sudadera con capucha, calidad normal, vinilo, lado trasero"}

Quantities == {1, 50}

InitParse ==
    /\ EmptyStore
    /\ eval \in {[fn |-> "parse_client_request", description |-> t, quantity |-> q,
                  done |-> FALSE, result |-> NoCall] :
                     t \in ParseTexts, q \in Quantities}

ParseClientRequest ==
    /\ eval.fn = "parse_client_request" /\ ~eval.done
    /\ eval' = [eval EXCEPT !.done = TRUE,
                            !.result = parse_client_request(eval.description, eval.quantity)]
    /\ UNCHANGED store

NextParse == ParseClientRequest

SpecParse == InitParse /\ [][NextParse]_vars

\* parse_client_request has been applied
Parsed == eval.fn = "parse_client_request" /\ eval.done

\* the synonym sets of a dictionary with a synonym inside the text
SetsInText(dict, text) ==
    {k \in 1..Len(dict) : \E j \in 1..Len(dict[k].syns) : Contains(text, dict[k].syns[j])}

\* value is the key of the first set of the dictionary occurring in the
\* text, or otherwise when no set occurs in it
IsFirstSet(dict, text, value, otherwise) ==
    IF SetsInText(dict, text) = {} THEN value = otherwise
    ELSE \E k \in SetsInText(dict, text) :
            /\ value = dict[k].key
            /\ \A j \in SetsInText(dict, text) : k <= j

\* C24: category, quality tier, technique, coverage and position are each
\* the key of the first synonym set, in declaration order, with a synonym
\* occurring in the lowercased text, wherever in the text the synonyms
\* stand; without a matching set the category is 'general' and the other
\* fields are unset; cantidad is the quantity passed in.
C24_FirstSynonymSetWins ==
    Parsed =>
        /\ IsFirstSet(categoria_synonyms, Lower(eval.description),
                      eval.result.categoria, "general")
        /\ IsFirstSet(perfil_synonyms, Lower(eval.description), eval.result.perfil, None)
        /\ IsFirstSet(tecnica_synonyms, Lower(eval.description), eval.result.tecnica, None)
        /\ IsFirstSet(cobertura_synonyms, Lower(eval.description),
                      eval.result.cobertura, None)
        /\ IsFirstSet(posicion_synonyms, Lower(eval.description),
                      eval.result.posicion, None)
        /\ eval.result.cantidad = eval.quantity

\* in every field the text names a later set before the first one, and the
\* first one is the result
C24_Witness ==
    /\ Parsed
    /\ eval.description
         = "Tazas o GORRAS, premium o barato, serigrafía o bordado, contorno o lleno, espalda o pecho"
    /\ eval.result.categoria = "gorra" /\ eval.result.perfil = "bajo"
    /\ eval.result.tecnica = "bordado" /\ eval.result.cobertura = "lleno"
    /\ eval.result.posicion = "pecho" /\ eval.result.cantidad = eval.quantity

\* ------------------------------------------------------------------------
\* Specification of calculate_product_score: a product and a parsed request
\* are drawn, the function is applied once
\* ------------------------------------------------------------------------
Entry(key, v) == [k \in {key} |-> v]

ScorePrices == {RInt(-5), RInt(0), RInt(1), RInt(10), R(51, 2), RInt(50), RInt(60)}
ScorePerfiles == {EmptyMap, Entry("perfil_calidad", SV("bajo")),
                  Entry("perfil_calidad", SV("medio")), Entry("perfil_calidad", SV("Alto")),
                  Entry("perfil_calidad", SV("premium"))}
ScoreImpresiones == {EmptyMap,
                     Entry("impresion", MV(Entry("tecnica_grabacion", SV("Bordado, Serigrafía")))),
                     Entry("print_codes", SV("Serigrafía")),
                     Entry("impresion", MV(EmptyMap)) @@ Entry("print_codes", SV("Bordado"))}
ScoreStocks == {EmptyMap, Entry("stock_disponible", SV("Si")),
                Entry("stock_disponible", SV("Bajo"))}
ScorePlazos == {EmptyMap, Entry("plazo_entrega_dias", NV(0)),
                Entry("plazo_entrega_dias", NV(-6)),
                Entry("plazo_entrega_dias", NV(10)), Entry("plazo_entrega_dias", SV("15")),
                Entry("plazo_entrega_dias", SV("pronto")), Entry("plazo_entrega_dias", NV(45))}
ScoreSostenibilidades == {EmptyMap, Entry("sostenibilidad", SV("reciclado"))}

ScoreCharacteristics ==
    {a @@ b @@ c @@ d @@ e : a \in ScorePerfiles, b \in ScoreImpresiones, c \in ScoreStocks,
                             d \in ScorePlazos, e \in ScoreSostenibilidades}

\* products as Product(...).dict() yields them, and bare dicts lacking
\* base_price or characteristics
ScoreProducts ==
    {[id |-> 1, name |-> "Gorra", description |-> "", category |-> "Gorras",
      image_url |-> None, user_id |-> "u1", base_price |-> p, characteristics |-> ch] :
         p \in ScorePrices, ch \in ScoreCharacteristics}
    \cup {[name |-> "Gorra", characteristics |-> ch] : ch \in ScoreCharacteristics}
    \cup {[name |-> "Gorra", base_price |-> p] : p \in ScorePrices}
    \cup {[name |-> "Gorra"]}

ScoreRequests ==
    {[categoria |-> "gorra", cantidad |-> 50, perfil |-> pf, tecnica |-> tc,
      area_cm2 |-> NoNumber, cobertura |-> None, dimensiones |-> None, posicion |-> None,
      presupuesto_maximo |-> NoNumber] :
         pf \in {None, "bajo", "medio", "alto"}, tc \in {None, "bordado"}}

InitScore ==
    /\ EmptyStore
    /\ eval \in {[fn |-> "calculate_product_score", product |-> p, parsed |-> r,
                  done |-> FALSE, result |-> NoCall] :
                     p \in ScoreProducts, r \in ScoreRequests}

CalculateProductScore ==
    /\ eval.fn = "calculate_product_score" /\ ~eval.done
    /\ eval' = [eval EXCEPT !.done = TRUE,
                            !.result = calculate_product_score(eval.product, eval.parsed)]
    /\ UNCHANGED store

NextScore == CalculateProductScore

SpecScore == InitScore /\ [][NextScore]_vars

Scored == eval.fn = "calculate_product_score" /\ eval.done

\* the same product at another base price
AtPrice(product, price) == [product EXCEPT !.base_price = price]

\* C3 (as stated): for two products identical except for base_price the score
\* is non-increasing in base_price over the whole range base_price >= 0,
\* base_price = 0 included.
C3_MonotoneFromZero ==
    (Scored /\ eval.result.raised = None /\ "base_price" \in DOMAIN eval.product
     /\ RLe(RZero, eval.product.base_price))
    => \A p2 \in ScorePrices :
          RLe(eval.product.base_price, p2)
          => RLe(calculate_product_score(AtPrice(eval.product, p2), eval.parsed).val,
                 eval.result.val)

\* C3 (amended): the score is non-increasing in base_price over base_price > 0,
\* where the price factor is 0.30 * max(0, 1 - price/50); a product whose
\* base_price is 0 receives no price contribution at all.
C3_MonotoneAbovePositive ==
    (Scored /\ eval.result.raised = None /\ "base_price" \in DOMAIN eval.product)
    => LET p1 == eval.product.base_price
           free == calculate_product_score(AtPrice(eval.product, RInt(50)), eval.parsed).val
       IN  /\ RLt(RZero, p1) =>
                 /\ \A p2 \in ScorePrices :
                       RLe(p1, p2)
                       => RLe(calculate_product_score(AtPrice(eval.product, p2),
                                                      eval.parsed).val,
                              eval.result.val)
                 /\ RSub(eval.result.val, free)
                       = RMul(R(3, 10), RMax(RZero, RSub(RInt(1), RDiv(p1, RInt(50)))))
           /\ p1 = RZero => eval.result.val = free

\* a product priced at 10 has been scored above the same product at 25.5
C3_Witness ==
    /\ Scored /\ eval.result.raised = None /\ "base_price" \in DOMAIN eval.product
    /\ eval.product.base_price = RInt(10)
    /\ RLt(calculate_product_score(AtPrice(eval.product, R(51, 2)), eval.parsed).val,
           eval.result.val)

\* the product without its quality tier
WithoutPerfil(product) ==
    [product EXCEPT !.characteristics =
        [k \in DOMAIN product.characteristics \ {"perfil_calidad"} |->
            product.characteristics[k]]]

\* C4: the quality-tier factor adds 0.25 when the requested tier equals the
\* product's perfil_calidad, 0.125 when the two are adjacent in (bajo, medio,
\* alto) and 0 in every other case, a perfil_calidad that is absent or outside
\* the three tiers included; a score is returned in all these cases, and an
\* exact match scores strictly higher than a non-match.
C4_PerfilFactor ==
    (Scored /\ "characteristics" \in DOMAIN eval.product)
    => LET requested == eval.parsed.perfil
           raw == Get(eval.product.characteristics, "perfil_calidad", SV(""))
           tier == Lower(raw.s)
           Rank(x) == CHOOSE k \in 1..3 : perfil_order[k] = x
           known == tier \in Range(perfil_order)
           expected ==
               IF requested # None /\ tier = requested THEN R(25, 100)
               ELSE IF requested # None /\ known /\ Abs(Rank(requested) - Rank(tier)) = 1
                    THEN R(125, 1000)
               ELSE RZero
           without == calculate_product_score(WithoutPerfil(eval.product), eval.parsed)
       IN  /\ eval.result.raised = None
           /\ RSub(eval.result.val, without.val) = expected
           /\ (requested # None /\ tier = requested) => RLt(without.val, eval.result.val)

\* C5: parse_client_request("Necesito 50 gorras bordadas en el pecho, área
\* 7x7cm, lleno", 50) returns categoria = gorra, tecnica = bordado,
\* area_cm2 = 49, dimensiones = 7x7cm, cobertura = lleno, posicion = pecho
\* and cantidad = 50.
C5_ExampleRequest ==
    (/\ eval.fn = "parse_client_request" /\ eval.done
     /\ eval.description = "Necesito 50 gorras bordadas en el pecho, área 7x7cm, lleno"
     /\ eval.quantity = 50)
    => /\ eval.result.categoria = "gorra"
       /\ eval.result.tecnica = "bordado"
       /\ eval.result.area_cm2 = 49
       /\ eval.result.dimensiones = "7x7cm"
       /\ eval.result.cobertura = "lleno"
       /\ eval.result.posicion = "pecho"
       /\ eval.result.cantidad = 50

\* the weights in the order of the factors
weights == <<w_precio, w_perfil, w_compatibilidad, w_stock, w_plazo, w_sostenibilidad>>

\* the factors of the call that was made
Factors == ScoreFactors(eval.product, eval.parsed)

\* C18: each of the six factors contributes a value between 0 and its weight
\* (0.30, 0.25, 0.20, 0.10, 0.10, 0.05) and the returned score lies in
\* [0, 1], for any numeric base_price and any integer plazo_entrega_dias,
\* negative values included.
C18_FactorsWithinWeights ==
    Scored =>
        /\ \A k \in 1..6 :
              Factors[k].raised = None =>
                  RLe(RZero, Factors[k].val) /\ RLe(Factors[k].val, weights[k])
        /\ eval.result.raised = None =>
              RLe(RZero, eval.result.val) /\ RLe(eval.result.val, RInt(1))

\* the product states a lead time
HasPlazo == "plazo_entrega_dias" \in DOMAIN CharacteristicsOf(eval.product)

\* the lead time the product states
StoredPlazo == CharacteristicsOf(eval.product)["plazo_entrega_dias"]

\* the product without its lead time
WithoutPlazo(product) ==
    IF "characteristics" \notin DOMAIN product THEN product
    ELSE [product EXCEPT !.characteristics =
             [k \in DOMAIN product.characteristics \ {"plazo_entrega_dias"} |->
                 product.characteristics[k]]]

\* what the lead time adds to the score
PlazoContribution ==
    RSub(eval.result.val,
         calculate_product_score(WithoutPlazo(eval.product), eval.parsed).val)

\* C19: the lead-time factor equals 0.10 * max(0, 1 - leadDays/30) for every
\* product whose plazo_entrega_dias is present and converts to a number of
\* days, a lead time of 0 days (full 0.10) included; the contribution is 0
\* (the 30-day default) only when the value is absent or does not convert.
C19_PlazoFactor ==
    (Scored /\ eval.result.raised = None) =>
        IF HasPlazo /\ IntOf(StoredPlazo).raised = None
        THEN PlazoContribution
                = RMul(R(1, 10), RMax(RZero, RSub(RInt(1), R(IntOf(StoredPlazo).n, 30))))
        ELSE PlazoContribution = RZero

\* the factors whose data the product or the request lacks
MissingData ==
    LET chars == CharacteristicsOf(eval.product)
        impresion == Get(chars, "impresion", MV(EmptyMap))
    IN  {k \in 1..6 :
           CASE k = 1 -> "base_price" \notin DOMAIN eval.product
             [] k = 2 -> "perfil_calidad" \notin DOMAIN chars \/ eval.parsed.perfil = None
             [] k = 3 -> \/ eval.parsed.tecnica = None
                         \/ /\ "tecnica_grabacion" \notin DOMAIN impresion.m
                            /\ "print_codes" \notin DOMAIN chars
             [] k = 4 -> "stock_disponible" \notin DOMAIN chars
             [] k = 5 -> "plazo_entrega_dias" \notin DOMAIN chars
             [] k = 6 -> "sostenibilidad" \notin DOMAIN chars}

\* C20: a score is returned without raising whatever subset of base_price,
\* characteristics, perfil_calidad, impresion.tecnica_grabacion, print_codes,
\* stock_disponible, plazo_entrega_dias and sostenibilidad the product lacks
\* and whatever optional fields the request leaves unset; every factor whose
\* data is missing contributes exactly 0, so the score is the sum of the
\* factors whose data is there.
C20_MissingDataScoresZero ==
    Scored =>
        /\ \A k \in MissingData : Factors[k] = Ok(RZero)
        /\ (\A k \in (1..6) \ MissingData : Factors[k].raised = None)
              => eval.result
                   = Ok(RSum([k \in 1..6 |->
                                IF k \in MissingData THEN RZero ELSE Factors[k].val]))

\* a product that is only a name has been scored for a request naming no
\* tier and no technique: the score is 0
C20_Witness ==
    /\ Scored /\ MissingData = 1..6
    /\ DOMAIN eval.product = {"name"}
    /\ eval.result = Ok(RZero)

\* ------------------------------------------------------------------------
\* Specification of quote generation: the users store the techniques of
\* their tariffs, user u1 fills a catalog, and u1 asks for a smart quote
\* ------------------------------------------------------------------------
\* bounds of the exploration
MaxCatalog == 6
MaxTariff == 3

Impresion(text) == Entry("impresion", MV(Entry("tecnica_grabacion", SV(text))))

QuoteCatalog ==
    {[name |-> "Gorra básica", description |-> "Gorra de 5 paneles", base_price |-> RInt(5),
      category |-> "Gorras", characteristics |-> Impresion("Bordado, Serigrafia")],
     [name |-> "Gorra premium", description |-> "Gorra de 6 paneles", base_price |-> RInt(20),
      category |-> "Gorras",
      characteristics |-> Impresion("Bordado, Serigrafia")
                          @@ Entry("stock_disponible", SV("Si"))]}

\* the techniques in the order they are stored
QuoteTechniques ==
    <<[owner |-> "u2", create |-> [name |-> "Bordado", cost_per_unit |-> R(8, 100),
                                   description |-> "Bordado por cm2"]],
      [owner |-> "u1", create |-> [name |-> "Bordado", cost_per_unit |-> R(5, 100),
                                   description |-> "Bordado por cm2"]],
      [owner |-> "u1", create |-> [name |-> "Serigrafía", cost_per_unit |-> R(1, 2),
                                   description |-> "Serigrafía 1 color"]]>>

NamedTechniques == <<"Serigrafía", "Bordado">>

QuoteRequest(text, marking_techniques) ==
    [client_name |-> "Cliente", product_description |-> text, quantity |-> 50,
     marking_techniques |-> marking_techniques]

QuoteRequests ==
    {QuoteRequest(t, <<>>) : t \in Range(RequestTexts)}
    \cup {QuoteRequest(t, NamedTechniques) : t \in Range(OtherTexts)}

InitQuote == EmptyStore /\ eval = NoCall

\* the store is filled before the request is made: the tariffs first, then
\* the catalog
QuoteCreateTechnique ==
    /\ Len(db_marking_techniques) < Min(MaxTariff, Len(QuoteTechniques))
    /\ db_products = <<>> /\ last.op # "generate_smart_quote"
    /\ LET t == QuoteTechniques[Len(db_marking_techniques) + 1]
       IN  create_marking_technique(t.owner, t.create)

QuoteCreateProduct ==
    /\ Len(db_products) < MaxCatalog /\ last.op # "generate_smart_quote"
    /\ \E pc \in QuoteCatalog : create_product("u1", pc)

QuoteGenerate ==
    /\ last.op # "generate_smart_quote"
    /\ \E req \in QuoteRequests : GenerateSmartQuoteRequest("u1", req)

NextQuote == QuoteCreateProduct \/ QuoteCreateTechnique \/ QuoteGenerate

SpecQuote == InitQuote /\ [][NextQuote]_vars

\* a smart quote has been generated and stored
Quoted == last.op = "generate_smart_quote" /\ last.status = 200

\* the items of seq at the 0-based positions a, ..., b - 1
Items(seq, a, b) ==
    IF Min(b, Len(seq)) <= a THEN <<>>
    ELSE [k \in 1..(Min(b, Len(seq)) - a) |-> seq[a + k]]

TierSizeOf(n) == IF n \div 3 >= 1 THEN n \div 3 ELSE 1

Mean(products) ==
    RDiv(RSum([k \in 1..Len(products) |-> products[k].base_price]), RInt(Len(products)))

C7_AveragesAndFallbacks ==
    Quoted =>
      LET top == last.top_products
          ts == TierSizeOf(Len(top))
          t == last.tiers
      IN  /\ t.basic.avg_price = Mean(t.basic.products)
          /\ t.medium.avg_price =
                IF Items(top, ts, 2 * ts) = <<>>
                THEN RMul(R(13, 10), t.basic.avg_price)
                ELSE Mean(t.medium.products)
          /\ t.premium.avg_price =
                IF t.premium.products = <<>>
                THEN RMul(R(14, 10), t.medium.avg_price)
                ELSE Mean(t.premium.products)

\* the sum of cost_per_unit over the owner's stored techniques named in the
\* request
NamedTechniquesCost ==
    LET named == SelectSeq(db_marking_techniques,
                           LAMBDA t : /\ t.user_id = last.user_id
                                      /\ \E k \in 1..Len(last.request.marking_techniques) :
                                            last.request.marking_techniques[k] = t.name)
    IN  RSum([k \in 1..Len(named) |-> named[k].cost_per_unit])

\* C8: for every request to which the embroidery cost model does not apply
\* (a technique other than bordado, bordado without a detected area, or no
\* technique detected), the marking cost per unit is the sum of cost_per_unit
\* over the owner's stored techniques named in the request.
C8_NamedTechniquesSum ==
    (Quoted /\ (last.parsed.tecnica # "bordado" \/ last.parsed.area_cm2 = NoNumber))
    => last.marking_cost_per_unit = NamedTechniquesCost

\* the embroidery cost of the request at the base rate
EmbroideryCost(baseRate) ==
    LET area == last.parsed.area_cm2
        coverage == IF last.parsed.cobertura = "lleno" THEN R(12, 10)
                    ELSE IF last.parsed.cobertura = "hueco" THEN R(8, 10)
                    ELSE RInt(1)
        band == IF area <= 15 THEN R(13, 10)
                ELSE IF 15 < area /\ area <= 35 THEN R(11, 10)
                ELSE IF 35 < area /\ area < 50 THEN RInt(1)
                ELSE R(9, 10)
    IN  RMul(RMul(RMul(baseRate, RInt(area)), coverage), band)

\* the owner's stored techniques whose name contains 'bordado'
OwnersBordado ==
    {k \in 1..Len(db_marking_techniques) :
        /\ db_marking_techniques[k].user_id = last.user_id
        /\ Contains(Lower(db_marking_techniques[k].name), "bordado")}

C27_BordadoWithoutTechnique ==
    (/\ last.op = "generate_smart_quote"
     /\ last.parsed.tecnica = "bordado" /\ last.parsed.area_cm2 # NoNumber
     /\ \E k \in 1..Len(db_products) :
           MatchesSmartFilter(db_products[k], last.user_id, last.parsed)
     /\ OwnersBordado = {})
    => /\ last.status = 200
       /\ last.marking_cost_per_unit = RZero
       /\ db_quotes = <<last.quote>>

\* C10: the ordering total_basic <= total_medium <= total_premium is not
\* enforced.  With 2 or 3 candidates the basic tier is the best-ranked product
\* and the medium tier the second: whenever the best-ranked product is dearer
\* than the second by more than a tenth of the marking cost (and 2 cents of
\* rounding), the stored quote has total_basic > total_medium.
C10_OrderNotEnforced ==
    (/\ Quoted /\ Len(last.top_products) \in {2, 3}
     /\ RLe(RAdd(last.top_products[2].base_price,
                 RAdd(RMul(R(1, 10), last.marking_cost_per_unit), R(2, 100))),
            last.top_products[1].base_price))
    => /\ db_quotes # <<>>
       /\ db_quotes[Len(db_quotes)] = last.quote
       /\ RLt(last.quote.total_medium, last.quote.total_basic)

\* a stored quote over 2 or 3 candidates whose basic total exceeds its medium
\* total
C10_Witness ==
    /\ Quoted /\ Len(last.top_products) \in {2, 3}
    /\ \E k \in 1..Len(db_quotes) :
          /\ db_quotes[k].id = last.quote.id
          /\ RLt(db_quotes[k].total_medium, db_quotes[k].total_basic)

\* the stored products the candidate query of the last request selects
Candidates ==
    {k \in 1..Len(db_products) :
        MatchesSmartFilter(db_products[k], last.user_id, last.parsed)}

\* C17: a smart quote request whose candidate query selects no product ends
\* with status 404 and a message naming the category searched for and the
\* technique searched for (when one was detected); it is no internal error
\* and no quote is inserted.
C17_NoCandidates404 ==
    (last.op = "generate_smart_quote" /\ Candidates = {}) =>
        /\ last.status = 404
        /\ Contains(last.detail, "'" \o last.parsed.categoria \o "'")
        /\ last.parsed.tecnica # None =>
              Contains(last.detail, "'" \o last.parsed.tecnica \o "'")
        /\ db_quotes = <<>> /\ next_id.quotes = 1

\* embroidered caps are requested from a store holding tariffs but no
\* product: 404 naming 'gorra' and 'bordado'
C17_Witness ==
    /\ last.op = "generate_smart_quote" /\ Candidates = {}
    /\ db_marking_techniques # <<>>
    /\ last.status = 404 /\ last.parsed.tecnica = "bordado"
    /\ Contains(last.detail, "'gorra'") /\ Contains(last.detail, "'bordado'")
    /\ db_quotes = <<>>

TierNames == {"basic", "medium", "premium"}

\* the multiplier of the marking cost in each tier
TierMultiplier(t) ==
    CASE t = "basic" -> R(9, 10) [] t = "medium" -> RInt(1) [] t = "premium" -> R(12, 10)

\* the total of each tier in the quote
QuoteTotal(t) ==
    CASE t = "basic" -> last.quote.total_basic
      [] t = "medium" -> last.quote.total_medium
      [] t = "premium" -> last.quote.total_premium

\* the unrounded unit price of a tier: the average price of its products plus
\* the marking cost per unit times the multiplier of the tier
UnroundedUnit(t) ==
    RAdd(RDiv(RSum([k \in 1..Len(last.tiers[t].products) |->
                       last.tiers[t].products[k].base_price]),
              RInt(Len(last.tiers[t].products))),
         RMul(last.marking_cost_per_unit, TierMultiplier(t)))

\* C23: each tier total is (tier average unit price + marking cost per unit
\* x tier multiplier) x requested quantity with multipliers 0.9, 1.0 and 1.2,
\* rounded to 2 decimals only when placed in the quote: the total is the
\* rounding of the unrounded product, and the unit price, the average and
\* the marking cost in the quote are roundings of the unrounded values.
C23_TotalsRoundedAtTheEnd ==
    Quoted =>
        \A t \in TierNames :
           /\ QuoteTotal(t) = Round2(RMul(UnroundedUnit(t), RInt(last.request.quantity)))
           /\ last.quote.products[1][t].total_unit_price = Round2(UnroundedUnit(t))
           /\ last.quote.products[1][t].marking_cost_per_unit
                 = Round2(RMul(last.marking_cost_per_unit, TierMultiplier(t)))
           /\ last.quote.products[1][t].avg_unit_price
                 = Round2(RSub(UnroundedUnit(t),
                               RMul(last.marking_cost_per_unit, TierMultiplier(t))))

\* an embroidery of 7x7 cm, filled: the basic unit price is 5 + 2.646, the
\* basic total for 50 units is 382.30, not 50 x 7.65
C23_Witness ==
    /\ Quoted /\ last.parsed.area_cm2 = 49 /\ last.request.quantity = 50
    /\ UnroundedUnit("basic") = R(7646, 1000)
    /\ last.quote.total_basic = R(38230, 100)
    /\ last.quote.total_basic
          # RMul(last.quote.products[1].basic.total_unit_price, RInt(50))

\* ------------------------------------------------------------------------
\* Specification of the ranking: user u1 holds a catalog of up to MaxRanked
\* products, caps of four kinds and mugs in between, and asks for a smart
\* quote
\* ------------------------------------------------------------------------
MaxRanked == 30

RankedSizes == {1, 2, 3, 5, 24, 26, 27, 28, MaxRanked}
RankedSteps == {1, 2, 3}
RankedOffsets == 0..4

\* the kinds of product of the catalogs; two kinds of cap score the same
RankedKinds ==
    <<[name |-> "Gorra básica", description |-> "", base_price |-> RInt(5),
       category |-> "Gorras", characteristics |-> Impresion("Bordado")],
      [name |-> "Gorra premium", description |-> "", base_price |-> RInt(20),
       category |-> "Gorras",
       characteristics |-> Impresion("Bordado") @@ Entry("stock_disponible", SV("Si"))],
      [name |-> "Taza", description |-> "", base_price |-> RInt(3),
       category |-> "Tazas", characteristics |-> Impresion("Serigrafia")],
      [name |-> "Gorra sport", description |-> "", base_price |-> RInt(5),
       category |-> "Gorras", characteristics |-> Impresion("Bordado")],
      [name |-> "Gorra lujo", description |-> "", base_price |-> RInt(40),
       category |-> "Gorras", characteristics |-> EmptyMap]>>

\* the store after n calls of create_product by u1
RankedCatalog(n, step, offset) ==
    [k \in 1..n |->
        [id |-> k, image_url |-> None, user_id |-> "u1"]
        @@ RankedKinds[((k * step + offset) % Len(RankedKinds)) + 1]]

RankedRequests == {QuoteRequest("Necesito gorras", <<>>), QuoteRequest("gorras con bordado", <<>>)}

InitRank ==
    /\ \E n \in RankedSizes, step \in RankedSteps, offset \in RankedOffsets :
          /\ db_products = RankedCatalog(n, step, offset)
          /\ next_id = [FreshIds EXCEPT !.products = n + 1]
    /\ db_users = <<>>
    /\ db_marking_techniques = <<>>
    /\ db_quotes = <<>>
    /\ last = NoRequest
    /\ eval = NoCall

RankGenerate ==
    /\ last.op # "generate_smart_quote"
    /\ \E req \in RankedRequests : GenerateSmartQuoteRequest("u1", req)

NextRank == RankGenerate

SpecRank == InitRank /\ [][NextRank]_vars

\* the candidates of the last request in retrieval order
Retrieved ==
    SelectSeq(db_products, LAMBDA p : MatchesSmartFilter(p, last.user_id, last.parsed))

\* the scores of a list of products for the last request
ScoresOf(products) ==
    Evaluated([k \in 1..Len(products) |->
                  calculate_product_score(products[k], last.parsed).val])

\* the position of a product in a list of products
PositionIn(products, p) == CHOOSE k \in 1..Len(products) : products[k].id = p.id

\* a ranks before b: a higher score, or the same score and retrieved earlier
RanksBefore(cands, scores, a, b) ==
    \/ RLt(scores[b], scores[a])
    \/ scores[b] = scores[a] /\ a < b

\* top is the first min(top_limit, N) items of the stable descending ranking
\* of cands
IsTopOfRanking(cands, scores, top) ==
    /\ Len(top) = Min(top_limit, Len(cands))
    /\ \A i \in 1..Len(top) : \E k \in 1..Len(cands) : cands[k] = top[i]
    /\ \A i, j \in 1..Len(top) :
          i < j => RanksBefore(cands, scores, PositionIn(cands, top[i]),
                               PositionIn(cands, top[j]))
    /\ \A k \in 1..Len(cands) :
          (\A i \in 1..Len(top) : top[i] # cands[k])
          => \A i \in 1..Len(top) :
                RanksBefore(cands, scores, PositionIn(cands, top[i]), k)

\* C21: the candidates are ranked by descending score, candidates of equal
\* score keep their retrieval order, and the tiers are built from exactly
\* the first min(20, N) items of that ranking.
C21_RankingAndTop20 ==
    Quoted =>
        /\ IsTopOfRanking(Retrieved, ScoresOf(Retrieved), last.top_products)
        /\ last.tiers = BuildTiers(last.top_products, last.marking_cost_per_unit,
                                   last.parsed.cantidad)
        /\ last.tiers.basic.products = Items(last.top_products, 0, tier_size(last.top_products))

\* more than 20 candidates were retrieved, 20 were kept, and among the kept
\* ones there are both equal and different scores
C21_Witness ==
    /\ Quoted /\ Len(Retrieved) > 20 /\ Len(last.top_products) = 20
    /\ \E i \in 1..19 :
          ScoresOf(last.top_products)[i] = ScoresOf(last.top_products)[i + 1]
    /\ \E i \in 1..19 :
          RLt(ScoresOf(last.top_products)[i + 1], ScoresOf(last.top_products)[i])
    /\ \E k \in 1..Len(Retrieved) :
          /\ \A i \in 1..20 : last.top_products[i] # Retrieved[k]
          /\ ScoresOf(Retrieved)[k] = ScoresOf(last.top_products)[20]

\* C22: for every candidate list of size N >= 1, N = 2 (tier size 1, twice
\* the tier size reaching the end of the list) included, the tiers are built
\* without an index error or a division by zero: the request succeeds, every
\* tier average is the sum of the prices of a non-empty list of ranked
\* candidates divided by its length, and the basic tier is non-empty.
C22_TiersBuiltForAnySize ==
    (last.op = "generate_smart_quote" /\ Len(Retrieved) >= 1) =>
        /\ last.status = 200
        /\ last.tiers.basic.products # <<>>
        /\ \A t \in TierNames :
              /\ Len(last.tiers[t].products) >= 1
              /\ \A k \in 1..Len(last.tiers[t].products) :
                    \E i \in 1..Len(last.top_products) :
                       last.top_products[i] = last.tiers[t].products[k]
              /\ last.tiers[t].avg_price
                    = RDiv(RSum([k \in 1..Len(last.tiers[t].products) |->
                                   last.tiers[t].products[k].base_price]),
                           RInt(Len(last.tiers[t].products)))

\* two candidates: the tier size is 1, the basic tier is the first, the
\* medium and the premium tier are the second
C22_Witness ==
    /\ Quoted /\ Len(Retrieved) = 2 /\ tier_size(last.top_products) = 1
    /\ last.tiers.basic.products = <<last.top_products[1]>>
    /\ last.tiers.medium.products = <<last.top_products[2]>>
    /\ last.tiers.premium.products = <<last.top_products[2]>>

\* ------------------------------------------------------------------------
\* Specification of the tariff upload: user u1 uploads one CSV tariff of up
\* to MaxTariffRows rows
\* ------------------------------------------------------------------------
MaxTariffRows == 2

\* headers the parser knows, and headers it has to infer the columns from
TariffHeaders == {<<"Tecnica", "Precio">>, <<"Nombre", "Importe">>}

\* a missing cell, a blank one and a name
TariffNameCells == {NaN, "  ", "Bordado"}

\* a missing cell, prices of 0 and below, prices above 0, and a text
TariffPriceCells == {NaN, "0", "-2", "0,05", "5 €", "consultar"}

TariffRowSets ==
    UNION {[1..n -> {<<name, price>> : name \in TariffNameCells, price \in TariffPriceCells}] :
              n \in 1..MaxTariffRows}

TariffCsv(headers, rows) ==
    [extension |-> "csv", readable |-> TRUE,
     frame |-> [columns |-> headers,
                rows |-> [j \in 1..Len(rows) |-> [cells |-> rows[j]]]]]

TariffCsvFiles == {TariffCsv(headers, rows) : headers \in TariffHeaders, rows \in TariffRowSets}

InitTariff == EmptyStore /\ eval = NoCall

UploadTariffCsv ==
    /\ last.op # "upload_marking_tariff"
    /\ \E file \in TariffCsvFiles : UploadMarkingTariffRequest("u1", file)

NextTariff == UploadTariffCsv

SpecTariff == InitTariff /\ [][NextTariff]_vars

\* a CSV tariff has been uploaded
TariffUploaded == last.op = "upload_marking_tariff" /\ last.file.extension = "csv"

\* the texts of the cells of the file that hold something
NonEmptyCells(file) ==
    {Strip(file.frame.rows[j].cells[k]) :
        j \in 1..Len(file.frame.rows), k \in 1..Len(file.frame.columns)}
    \ {Strip(NaN), ""}

\* the rows of the file whose first cell, the technique name, holds something
NamedRows(file) ==
    {j \in 1..Len(file.frame.rows) :
        notna(file.frame.rows[j].cells[1]) /\ Strip(file.frame.rows[j].cells[1]) # ""}

\* C25: a row whose technique-name cell is empty or missing, or whose price
\* is <= 0, yields no technique in either pass and is no error: the upload
\* succeeds, and every technique stored from the CSV has a price > 0 and a
\* name taken from a non-empty name cell of the file.
C25_SkippedRowsYieldNothing ==
    TariffUploaded =>
        /\ last.status = 200
        /\ Len(db_marking_techniques) = last.count
        /\ last.count <= Cardinality(NamedRows(last.file))
        /\ \A k \in 1..Len(db_marking_techniques) :
              /\ RLt(RZero, db_marking_techniques[k].cost_per_unit)
              /\ \E j \in NamedRows(last.file) :
                    db_marking_techniques[k].name = Strip(last.file.frame.rows[j].cells[1])

\* ------------------------------------------------------------------------
\* Specification of upload_catalog: one catalog file is uploaded into the
\* empty store.  The files are two header layouts filled with every sequence
\* of up to MaxRows rows, a ten-row file whose third row fails, an unreadable
\* file and a file of another type.
\* ------------------------------------------------------------------------
MaxRows == 3

\* the rows of a file: a good one, a blank one, one whose extraction raises,
\* one with a negative price
RowKinds ==
    {[cells |-> <<"Gorra", "5,50">>, fault |-> None],
     [cells |-> <<NaN, NaN>>, fault |-> None],
     [cells |-> <<"Taza", "3">>, fault |-> "malformed characteristics"],
     [cells |-> <<"Bolsa", "-3">>, fault |-> None]}

HeaderLayouts == {<<"Nombre", "Precio">>, <<"Articulo", " -500 ">>}

RowSequences == UNION {[1..n -> RowKinds] : n \in 0..MaxRows}

GoodRow == [cells |-> <<"Gorra", "5,50">>, fault |-> None]
FailingRow == [cells |-> <<"Taza", "3">>, fault |-> "malformed characteristics"]

TenRowFile ==
    [extension |-> "xlsx", readable |-> TRUE,
     frame |-> [columns |-> <<"Nombre", "Precio">>,
                rows |-> [i \in 1..10 |-> IF i = 3 THEN FailingRow ELSE GoodRow]]]

UploadFiles ==
    {[extension |-> "csv", readable |-> TRUE, frame |-> [columns |-> h, rows |-> rs]] :
        h \in HeaderLayouts, rs \in RowSequences}
    \cup {TenRowFile,
          [extension |-> "csv", readable |-> FALSE, failure |-> "EmptyDataError",
           frame |-> [columns |-> <<>>, rows |-> <<>>]],
          [extension |-> "pdf", readable |-> TRUE,
           frame |-> [columns |-> <<"Nombre">>, rows |-> <<>>]]}

InitUpload == EmptyStore /\ eval = NoCall

UploadCatalog ==
    /\ last = NoRequest
    /\ \E file \in UploadFiles : UploadCatalogRequest("u1", file)

NextUpload == UploadCatalog

SpecUpload == InitUpload /\ [][NextUpload]_vars

Uploaded == last.op = "upload_catalog" /\ last.status = 200

\* the 1-based positions of the file's non-blank rows, and of those whose
\* extraction raises
NonBlankRows ==
    {i \in 1..Len(last.file.frame.rows) :
        \E k \in 1..Len(last.file.frame.rows[i].cells) :
            last.file.frame.rows[i].cells[k] # NaN}

FailingRows == {i \in NonBlankRows : last.file.frame.rows[i].fault # None}

\* C1: an exception raised while one row is extracted never aborts the batch:
\* the row with 0-based index i gets exactly one error beginning "Row {i+2}:",
\* every other row is processed, len(products) + len(errors) is the number of
\* non-blank rows, and the batch insert of the extracted products happens.
C1_RowErrorsDoNotAbort ==
    Uploaded =>
      /\ \A i \in FailingRows :
            Cardinality({e \in 1..Len(last.errors) :
                            StartsWith(last.errors[e],
                                       "Row " \o IntToStr((i - 1) + 2) \o ":")}) = 1
      /\ Len(last.errors) = Cardinality(FailingRows)
      /\ last.count + Len(last.errors) = Cardinality(NonBlankRows)
      /\ Len(db_products) = Cardinality(NonBlankRows \ FailingRows)
      /\ \A k \in 1..Len(db_products) : db_products[k].user_id = last.user_id

\* ten rows of which only the third fails: 9 products stored, one error
\* naming Row 4
C1_Witness ==
    /\ Uploaded /\ Len(last.file.frame.rows) = 10
    /\ last.count = 9 /\ Len(db_products) = 9
    /\ Len(last.errors) = 1 /\ StartsWith(last.errors[1], "Row 4:")

\* ------------------------------------------------------------------------
\* Specification of upload_catalog step by step: the file is read and its
\* columns are resolved, the rows are processed one at a time into the local
\* lists products and errors, and after the last row the batch is inserted
\* and the response returned.  eval holds the handler's local variables.
\* ------------------------------------------------------------------------
\* the outcome of a fatal file error, before any row
UploadAborted(user_id, file) ==
    /\ last' = [op |-> "upload_catalog", user_id |-> user_id, status |-> 400,
                count |-> 0, errors |-> <<>>, inserted |-> FALSE, file |-> file]
    /\ eval' = [fn |-> "upload_catalog", pc |-> "aborted"]
    /\ UNCHANGED <<db_users, db_products, db_marking_techniques, db_quotes, next_id>>

\* the locals at the start of the row loop
UploadLocals(user_id, file, df, cols) ==
    /\ eval' = [fn |-> "upload_catalog", pc |-> "rows", user_id |-> user_id, file |-> file,
                df |-> df, cols |-> cols, detected |-> detected_price_cols(df, cols),
                index |-> 1, products |-> <<>>, errors |-> <<>>]
    /\ UNCHANGED store

UploadCleaned(user_id, file, df) ==
    IF df.empty THEN UploadAborted(user_id, file)
    ELSE UploadLocals(user_id, file, df, ResolveColumns(df.columns))

UploadOpened(user_id, file, read) ==
    IF read.raised # None THEN UploadAborted(user_id, file)
    ELSE UploadCleaned(user_id, file, CleanFrame(read.frame))

\* lines 215-352: extension, read, cleaning, column resolution
BeginUpload ==
    /\ last = NoRequest /\ eval = NoCall
    /\ \E file \in UploadFiles :
          IF file.extension \notin allowed_extensions THEN UploadAborted("u1", file)
          ELSE UploadOpened("u1", file, read_file(file))

\* a row loop that writes every product as soon as it is built
ProcessRow_InsertEach ==
    /\ eval.fn = "upload_catalog" /\ eval.pc = "rows" /\ eval.index <= Len(eval.df.rows)
    /\ eval' = [eval EXCEPT !.index = @ + 1,
                  !.errors = IF eval.df.rows[eval.index].fault = None THEN @
                             ELSE Append(@, "Row "
                                      \o IntToStr(eval.df.rows[eval.index].label + 2)
                                      \o ": " \o eval.df.rows[eval.index].fault)]
    /\ db_products' =
          IF eval.df.rows[eval.index].fault = None
          THEN Append(db_products,
                      [id |-> next_id.products] @@
                      ExtractRow(eval.df.rows[eval.index], eval.df, eval.cols,
                                 eval.detected, eval.user_id))
          ELSE db_products
    /\ next_id' = [next_id EXCEPT !.products = @ + 1]
    /\ UNCHANGED <<db_users, db_marking_techniques, db_quotes, last>>

\* lines 354-509: one iteration of the row loop
ProcessRow ==
    /\ eval.fn = "upload_catalog" /\ eval.pc = "rows" /\ eval.index <= Len(eval.df.rows)
    /\ eval' = [eval EXCEPT !.index = @ + 1,
                  !.products = IF eval.df.rows[eval.index].fault # None THEN @
                               ELSE Append(@, ExtractRow(eval.df.rows[eval.index], eval.df,
                                                         eval.cols, eval.detected,
                                                         eval.user_id)),
                  !.errors = IF eval.df.rows[eval.index].fault = None THEN @
                             ELSE Append(@, "Row "
                                      \o IntToStr(eval.df.rows[eval.index].label + 2)
                                      \o ": " \o eval.df.rows[eval.index].fault)]
    /\ UNCHANGED store

\* lines 511-575: the batch insert and the response
InsertBatch ==
    /\ eval.fn = "upload_catalog" /\ eval.pc = "rows" /\ eval.index > Len(eval.df.rows)
    /\ last = NoRequest
    /\ InsertCatalog(eval.user_id, eval.file,
                     UploadRows([products |-> eval.products, errors |-> eval.errors]))

NextBatch ==
    \/ BeginUpload
    \/ ProcessRow
    \/ InsertBatch

SpecBatch == InitUpload /\ [][NextBatch]_vars

\* the stored products without their ids
StoredContents == [k \in 1..Len(db_products) |->
                      [f \in DOMAIN db_products[k] \ {"id"} |-> db_products[k][f]]]

\* C16: while the rows are being processed nothing is written to the store;
\* the store changes in one step only, after the last row, by exactly the
\* extracted products, and only when there is at least one (also when other
\* rows failed); the reported count is the number of products inserted; an
\* upload that aborts with a fatal file error inserts nothing.
C16_BatchInsert ==
    /\ []((eval.fn = "upload_catalog" /\ last = NoRequest) => db_products = <<>>)
    /\ [][db_products' # db_products =>
             /\ eval.pc = "rows" /\ eval.index > Len(eval.df.rows)
             /\ eval.products # <<>>
             /\ db_products = <<>> /\ StoredContents' = eval.products]_vars
    /\ [](last.op = "upload_catalog" =>
             /\ last.count = Len(db_products)
             /\ last.inserted = (eval.pc = "rows" /\ eval.products # <<>>)
             /\ last.status = 400 => (eval.pc = "aborted" /\ db_products = <<>>))

\* an upload with a failed row and two extracted rows has inserted the two
C16_Witness ==
    /\ last.op = "upload_catalog" /\ last.status = 200
    /\ Len(last.errors) = 1 /\ last.count = 2 /\ last.inserted
    /\ Len(db_products) = 2

\* ------------------------------------------------------------------------
\* Specification of find_column as a function of the file's headers: a
\* canonical field and up to MaxHeaders distinct headers are drawn, the
\* headers are normalised as upload_catalog normalises them and the function
\* is applied once.
\* ------------------------------------------------------------------------
MaxHeaders == 3

HeaderPool ==
    {"Nombre", " ARTICULO ", "Name", "Nombre producto", "articulos", "Ref",
     "Referencia", "Precio", "Unnamed: 0"}

FindFields == {"name", "reference", "price_base", "image_url"}

HeaderLists ==
    {h \in UNION {[1..n -> HeaderPool] : n \in 1..MaxHeaders} :
        \A i, j \in 1..Len(h) : i # j => h[i] # h[j]}

\* a one-row frame under the headers
HeaderFrame(headers) ==
    [columns |-> headers,
     rows |-> <<[cells |-> [k \in 1..Len(headers) |-> "x"], fault |-> None]>>]

InitFind ==
    /\ EmptyStore
    /\ eval \in {[fn |-> "find_column", field |-> f, columns |-> h,
                  done |-> FALSE, result |-> NoCall] :
                     f \in FindFields, h \in HeaderLists}

FindColumn ==
    /\ eval.fn = "find_column" /\ ~eval.done
    /\ eval' = [eval EXCEPT !.done = TRUE,
                            !.result = find_column(column_mappings[eval.field],
                                           CleanFrame(HeaderFrame(eval.columns)).columns)]
    /\ UNCHANGED store

NextFind == FindColumn

SpecFind == InitFind /\ [][NextFind]_vars

\* the observed headers, lowercased and trimmed
Observed == {Strip(Lower(eval.columns[k])) : k \in 1..Len(eval.columns)}

\* C14: find_column returns the first synonym, in the list's priority order,
\* that is exactly equal to one of the lowercased and trimmed headers, and
\* None when no synonym equals a header; a header that only contains or
\* resembles a synonym is never returned; the store is left as it was.
C14_FindColumn ==
    (eval.fn = "find_column" /\ eval.done) =>
        /\ eval.result # None =>
              \E k \in 1..Len(column_mappings[eval.field]) :
                  /\ eval.result = column_mappings[eval.field][k]
                  /\ eval.result \in Observed
                  /\ \A j \in 1..(k - 1) : column_mappings[eval.field][j] \notin Observed
        /\ eval.result = None =>
              \A k \in 1..Len(column_mappings[eval.field]) :
                  column_mappings[eval.field][k] \notin Observed
        /\ EmptyStore

\* 'Nombre' comes first in the file, ' ARTICULO ' second and 'Nombre
\* producto' third: the synonym 'articulo', first in the list, is returned
C14_Witness ==
    /\ eval.fn = "find_column" /\ eval.done /\ eval.field = "name"
    /\ eval.columns = <<"Nombre", " ARTICULO ", "Nombre producto">>
    /\ eval.result = "articulo"

\* ------------------------------------------------------------------------
\* Specification of extract_price as a function of the cell: a cell is
\* drawn, the function is applied once.  The cells are the missing cell and
\* the texts made of a prefix, a body and a suffix.
\* ------------------------------------------------------------------------
PricePrefixes == {"", "$", " ", "-"}
PriceBodies ==
    {"12,50", "1.234,56", "3.20", "9.99", "5", "12.", ",5", "1,234.56",
     "1,234,567", "1.2.3", "abc", "", ".", "inf", "NaN", "1 234,56"}
PriceSuffixes == {"", "€", " ", " £"}

ExtractCells ==
    {NaN} \cup {a \o b \o c : a \in PricePrefixes, b \in PriceBodies, c \in PriceSuffixes}

InitExtract ==
    /\ EmptyStore
    /\ eval \in {[fn |-> "extract_price", cell |-> c, done |-> FALSE, result |-> NoCall] :
                     c \in ExtractCells}

\* the ValueError of float() is caught inside extract_price, and nothing
\* else in it raises
ExtractPrice ==
    /\ eval.fn = "extract_price" /\ ~eval.done
    /\ eval' = [eval EXCEPT !.done = TRUE, !.result = Ok(extract_price(eval.cell))]
    /\ UNCHANGED store

NextExtract == ExtractPrice

SpecExtract == InitExtract /\ [][NextExtract]_vars

\* the text without the currency symbols and without whitespace
WithoutSymbols(text) == RemoveChars(text, {"€", "$", "£", " ", "\t", "\n", " "})

\* both '.' and ',': the dots go and the comma is the decimal point; else
\* exactly one ',': it is the decimal point
DecimalPoint(text) ==
    IF Contains(text, ".") /\ Contains(text, ",")
    THEN ReplaceChar(RemoveChars(text, {"."}), ",", ".")
    ELSE IF CountChar(text, ",") = 1 THEN ReplaceChar(text, ",", ".")
    ELSE text

\* the number a text writes, 0.0 when it writes none
WrittenNumber(f) == IF f.ok /\ f.r.d # 0 THEN f.r ELSE RZero

\* C13: extract_price never raises and returns a number for any cell: 0.0
\* for a missing cell, else the number written by the text once the symbols
\* €, $, £ and the whitespace are removed and the decimal comma is read
\* ('12,50€' 12.50, '1.234,56' 1234.56, '$3.20' 3.20, ' 9.99 ' 9.99), and
\* 0.0 when that text is not a number.
C13_ExtractPrice ==
    (eval.fn = "extract_price" /\ eval.done) =>
        /\ eval.result.raised = None
        /\ eval.result.val.d # 0
        /\ eval.result.val =
              IF eval.cell = NaN THEN RZero
              ELSE WrittenNumber(ParseFloat(DecimalPoint(WithoutSymbols(eval.cell))))

\* ------------------------------------------------------------------------
\* Specification of the price selection of upload_catalog: one two-row
\* Excel file is uploaded into the empty store.  The first row takes every
\* combination of price cells, the second row holds 7 in every price column
\* (so that a column of numbers has a range).
\* ------------------------------------------------------------------------
PriceCells == {NaN, "0", "4,50", "8", "-3", "-3 €"}

\* headers after the name column: the four tiers; two tiers and the explicit
\* column; the explicit column alone; two unnamed numeric columns; the
\* explicit column and an unnamed numeric column
PriceLayouts ==
    {<<"-500", "+500", "+2000", "+5000">>,
     <<"-500", "+500", "Precio">>,
     <<"Precio">>,
     <<"Margen", "Extra">>,
     <<"Precio", "Extra">>}

PriceFile(layout, cells) ==
    [extension |-> "xlsx", readable |-> TRUE,
     frame |-> [columns |-> <<"Nombre">> \o layout,
                rows |-> <<[cells |-> <<"Gorra">> \o cells, fault |-> None],
                           [cells |-> <<"Base">> \o [k \in 1..Len(layout) |-> "7"],
                            fault |-> None]>>]]

PriceFiles ==
    UNION {{PriceFile(layout, cells) : cells \in [1..Len(layout) -> PriceCells]} :
              layout \in PriceLayouts}

InitPrice == EmptyStore /\ eval = NoCall

UploadPrices ==
    /\ last = NoRequest
    /\ \E file \in PriceFiles : UploadCatalogRequest("u1", file)

NextPrice == UploadPrices

SpecPrice == InitPrice /\ [][NextPrice]_vars

PriceUploaded == Uploaded /\ Len(db_products) = Len(last.file.frame.rows)

\* the uploaded frame, its resolved columns and its detected price columns
PriceFrame == CleanFrame(last.file.frame)
PriceColumns == ResolveColumns(PriceFrame.columns)
DetectedColumns == detected_price_cols(PriceFrame, PriceColumns)

\* the parsed price of row i in a column (0.0 for no column)
RowPrice(i, col) == extract_price(CellOf(PriceFrame.rows[i], col))
TierPrice(i, k) == RowPrice(i, PriceColumns[volume_fields[k]])
ExplicitPrice(i) == RowPrice(i, PriceColumns.price_base)

\* the detected columns giving row i a price > 0, and those with any value
UsableDetected(i) ==
    {k \in 1..Len(DetectedColumns) : RLt(RZero, RowPrice(i, DetectedColumns[k]))}
PresentDetected(i) ==
    {k \in 1..Len(DetectedColumns) : notna(CellOf(PriceFrame.rows[i], DetectedColumns[k]))}

\* the fallback chain below the tiers: the explicit column, then the detected
\* columns, with what is left when no detected column gives a price
BelowTiers(i, otherwise) ==
    IF ExplicitPrice(i) # RZero THEN ExplicitPrice(i)
    ELSE IF UsableDetected(i) # {}
         THEN RowPrice(i, DetectedColumns[SetMin(UsableDetected(i))])
         ELSE otherwise

\* the selection with a tier counting when it is in the set chosen
SelectedPrice(i, chosen, otherwise) ==
    IF chosen # {} THEN TierPrice(i, SetMin(chosen)) ELSE BelowTiers(i, otherwise)

Strategies == 7

StrategyLabel(k) == "S" \o IntToStr(k)

WideFrame(k) ==
    [columns |-> <<"Nombre", "Precio">>,
     rows |-> <<[cells |-> <<StrategyLabel(k), "5">>, fault |-> None]>>]

NarrowFrame(k) ==
    [columns |-> <<"Nombre;Precio">>,
     rows |-> <<[cells |-> <<StrategyLabel(k) \o ";5">>, fault |-> None]>>]

NoFrame == [columns |-> <<>>, rows |-> <<>>]

\* the outcomes of the k-th call; the first call can also fail on the
\* encoding of the bytes, which is no ParserError
StrategyOutcomes(k) ==
    {[raised |-> None, frame |-> WideFrame(k)],
     [raised |-> None, frame |-> NarrowFrame(k)],
     [raised |-> "ParserError", frame |-> NoFrame]}
    \cup (IF k = 1 THEN {[raised |-> "UnicodeDecodeError", frame |-> NoFrame]} ELSE {})

CsvFile(outcomes) ==
    [extension |-> "csv", readable |-> outcomes[1].raised = None,
     failure |-> outcomes[1].raised, frame |-> outcomes[1].frame,
     retries |-> Tail(outcomes)]

LadderFiles ==
    {CsvFile(<<o1, o2, o3, o4, o5, o6, o7>>) :
        o1 \in StrategyOutcomes(1), o2 \in StrategyOutcomes(2),
        o3 \in StrategyOutcomes(3), o4 \in StrategyOutcomes(4),
        o5 \in StrategyOutcomes(5), o6 \in StrategyOutcomes(6),
        o7 \in StrategyOutcomes(7)}

InitLadder == EmptyStore /\ eval = NoCall

UploadCsv ==
    /\ last = NoRequest
    /\ \E file \in LadderFiles : UploadCatalogRequest("u1", file)

NextLadder == UploadCsv

SpecLadder == InitLadder /\ [][NextLadder]_vars

\* the outcomes of the seven calls on the uploaded file, in ladder order
OutcomesOf(file) ==
    <<[raised |-> IF file.readable THEN None ELSE file.failure, frame |-> file.frame]>>
    \o file.retries

\* the strategies of the uploaded file that yield more than one column
WideStrategies ==
    {k \in 1..Strategies :
        /\ OutcomesOf(last.file)[k].raised = None
        /\ Len(OutcomesOf(last.file)[k].frame.columns) > 1}

\* the store holds exactly the row of the frame of strategy k
StoredFrom(k) ==
    /\ Len(db_products) = 1
    /\ \/ db_products[1].name = StrategyLabel(k)
       \/ /\ "nombre;precio" \in DOMAIN db_products[1].characteristics
          /\ db_products[1].characteristics["nombre;precio"] = SV(StrategyLabel(k) \o ";5")

\* C11: the CSV strategies are tried strictly in order, a strategy that fails
\* or yields a single column hands over to the next one, the first strategy
\* yielding more than one column supplies the frame, and a parse failure
\* reaches the caller only when the last strategy has failed.
C11_LadderInOrder ==
    (last.op = "upload_catalog" /\ last.file.extension = "csv") =>
        /\ WideStrategies # {} =>
              (last.status = 200 /\ StoredFrom(SetMin(WideStrategies)))
        /\ last.status = 400 => OutcomesOf(last.file)[Strategies].raised # None

\* ------------------------------------------------------------------------
\* Specification of the service: the users create and delete products,
\* upload catalogs, create marking techniques and request smart quotes, in
\* any order
\* ------------------------------------------------------------------------
MaxProducts == 2
MaxTechniques == 1
MaxQuotes == 1
MaxIds == 3

ManualProducts ==
    {[name |-> "Gorra básica", description |-> "Gorra de 5 paneles", base_price |-> RInt(5),
      category |-> "Gorras", characteristics |-> Impresion("Bordado, Serigrafia")],
     [name |-> "Gorra rebajada", description |-> "Gorra", base_price |-> RInt(-1),
      category |-> "Gorras", characteristics |-> EmptyMap]}

CatalogFiles ==
    {[extension |-> "csv", readable |-> TRUE,
      frame |-> [columns |-> <<"Nombre", "Precio">>, rows |-> <<GoodRow>>]],
     [extension |-> "csv", readable |-> TRUE,
      frame |-> [columns |-> <<"Nombre", "Precio">>,
                 rows |-> <<[cells |-> <<"Bolsa", "-3">>, fault |-> None]>>]]}

Techniques ==
    {[name |-> "Bordado", cost_per_unit |-> R(5, 100), description |-> "Bordado por cm2"]}

Requests ==
    {QuoteRequest("gorras con bordado 3x5cm", <<>>),
     QuoteRequest("Necesito gorras", NamedTechniques)}

\* tariff files: a CSV with one technique, the PDF, an unreadable CSV and a
\* file of another type
TariffFiles ==
    {[extension |-> "csv", readable |-> TRUE,
      frame |-> [columns |-> <<"Tecnica", "Precio">>,
                 rows |-> <<[cells |-> <<"Bordado", "0,05">>]>>]],
     [extension |-> "pdf", readable |-> TRUE, frame |-> [columns |-> <<>>, rows |-> <<>>]],
     [extension |-> "csv", readable |-> FALSE, frame |-> [columns |-> <<>>, rows |-> <<>>]],
     [extension |-> "xlsx", readable |-> TRUE, frame |-> [columns |-> <<>>, rows |-> <<>>]]}

QuoteCreates ==
    {[client_name |-> "Cliente", search_criteria |-> [category |-> "gorras"],
      marking_techniques |-> <<"Bordado">>],
     [client_name |-> "Cliente", search_criteria |-> EmptyMap,
      marking_techniques |-> <<>>]}

Init == EmptyStore /\ eval = NoCall

CreateProduct ==
    /\ Len(db_products) < MaxProducts /\ next_id.products <= MaxIds
    /\ \E u \in Users, pc \in ManualProducts : create_product(u, pc)

UploadCatalogFile ==
    /\ next_id.products <= MaxIds
    /\ \E u \in Users, file \in CatalogFiles :
          /\ Len(db_products) + Len(file.frame.rows) <= MaxProducts
          /\ UploadCatalogRequest(u, file)

DeleteProduct ==
    \E u \in Users, id \in 1..MaxIds : delete_product(u, id)

DeleteAllProducts ==
    \E u \in Users : delete_all_products(u)

CreateMarkingTechnique ==
    /\ Len(db_marking_techniques) < MaxTechniques
    /\ \E u \in Users, t \in Techniques : create_marking_technique(u, t)

UploadMarkingTariff ==
    /\ Len(db_marking_techniques) < MaxTechniques
    /\ \E u \in Users, file \in TariffFiles : UploadMarkingTariffRequest(u, file)

GenerateSmartQuote ==
    /\ Len(db_quotes) < MaxQuotes
    /\ \E u \in Users, req \in Requests : GenerateSmartQuoteRequest(u, req)

GenerateQuote ==
    /\ Len(db_quotes) < MaxQuotes
    /\ \E u \in Users, qc \in QuoteCreates : GenerateQuoteRequest(u, qc)

Next ==
    \/ CreateProduct
    \/ UploadCatalogFile
    \/ DeleteProduct
    \/ DeleteAllProducts
    \/ CreateMarkingTechnique
    \/ UploadMarkingTariff
    \/ GenerateSmartQuote
    \/ GenerateQuote

Spec == Init /\ [][Next]_vars

\* C2: after any sequence of upload_catalog and create_product operations
\* every stored product has base_price >= 0, whatever the price cells of the
\* file held and whatever base_price the manual-creation caller supplied.
C2_StoredPricesNonNegative ==
    \A k \in 1..Len(db_products) : RLe(RZero, db_products[k].base_price)

\* the ids of the stored products, now and after the step
StoredIds == {db_products[k].id : k \in 1..Len(db_products)}
StoredIdsAfter == {db_products'[k].id : k \in 1..Len(db_products')}

\* C15: in every step of every user, each stored quote stays in the store
\* with its content unchanged (also when the step deletes products), each
\* stored marking technique and each stored product that remains keeps its
\* content, and a product leaves the store only in a step of delete_product
\* or delete_all_products.
C15_StoredRecordsImmutable ==
    [][/\ Len(db_quotes') >= Len(db_quotes)
       /\ \A k \in 1..Len(db_quotes) : db_quotes'[k] = db_quotes[k]
       /\ Len(db_marking_techniques') >= Len(db_marking_techniques)
       /\ \A k \in 1..Len(db_marking_techniques) :
             db_marking_techniques'[k] = db_marking_techniques[k]
       /\ \A i \in 1..Len(db_products), j \in 1..Len(db_products') :
             db_products'[j].id = db_products[i].id => db_products'[j] = db_products[i]
       /\ StoredIds \ StoredIdsAfter # {} =>
             last'.op \in {"delete_product", "delete_all_products"}]_vars

\* the product ids snapshotted by a quote of generate_quote
SnapshotIds(q) ==
    {q.products[1].basic[k].id : k \in 1..Len(q.products[1].basic)}
    \cup {q.products[1].medium[k].id : k \in 1..Len(q.products[1].medium)}
    \cup {q.products[1].premium[k].id : k \in 1..Len(q.products[1].premium)}

\* a quote is in the store after a deletion took away a product it snapshots
C15_Witness ==
    /\ last.op \in {"delete_product", "delete_all_products"}
    /\ \E k \in 1..Len(db_quotes) :
          /\ "request" \notin DOMAIN db_quotes[k].products[1]
          /\ SnapshotIds(db_quotes[k]) \ StoredIds # {}

\* ------------------------------------------------------------------------
\* Specification of the stored quotes: the users create and delete products,
\* generate up to MaxStoredQuotes quotes and read them back
\* ------------------------------------------------------------------------
MaxStoredQuotes == 2

StoredGenerateQuote ==
    /\ Len(db_quotes) < MaxStoredQuotes
    /\ \E u \in Users, qc \in QuoteCreates : GenerateQuoteRequest(u, qc)

GetQuotes == \E u \in Users : get_quotes(u)

GetQuote == \E u \in Users, id \in 1..(MaxStoredQuotes + 1) : get_quote(u, id)

NextStored ==
    \/ CreateProduct
    \/ DeleteProduct
    \/ DeleteAllProducts
    \/ StoredGenerateQuote
    \/ GetQuotes
    \/ GetQuote

SpecStored == Init /\ [][NextStored]_vars

\* the stored quotes of a user
QuotesOf(user_id) == {db_quotes[k] : k \in {i \in 1..Len(db_quotes) : db_quotes[i].user_id = user_id}}

\* the stored products that match the criteria of a request of a user
MatchingProducts(user_id, quote_create) ==
    {k \in 1..Len(db_products) :
        MatchesCriteria(db_products[k], user_id, quote_create.search_criteria)}

\* C26: a generate_quote that succeeds returns a quote carrying id,
\* client_name, total_basic, total_medium and total_premium and adds exactly
\* that one quote to the store; whatever happens later the quote stays
\* stored, get_quotes of its user lists it and get_quote of its user with
\* its id returns it with 200; get_quote with an id that is unknown or is
\* another user's returns 404.
C26_QuoteStoredAndReadable ==
    /\ [][last'.op = "generate_quote" =>
            IF MatchingProducts(last'.user_id, last'.request) # {}
            THEN last'.status = 200
            ELSE last'.status = 404 /\ db_quotes' = db_quotes]_vars
    /\ [][(last'.op = "generate_quote" /\ last'.status = 200) =>
            /\ {"id", "client_name", "total_basic", "total_medium", "total_premium"}
                  \subseteq DOMAIN last'.quote
            /\ last'.quote.user_id = last'.user_id
            /\ \A k \in 1..Len(db_quotes) : db_quotes[k].id # last'.quote.id
            /\ db_quotes' = Append(db_quotes, last'.quote)]_vars
    /\ [][\A k \in 1..Len(db_quotes) :
              Len(db_quotes') >= k /\ db_quotes'[k] = db_quotes[k]]_vars
    /\ [](last.op = "get_quotes" =>
             /\ last.status = 200
             /\ {last.quotes[k] : k \in 1..Len(last.quotes)} = QuotesOf(last.user_id))
    /\ [](last.op = "get_quote" =>
             IF \E q \in QuotesOf(last.user_id) : q.id = last.id
             THEN last.status = 200 /\ last.quote \in QuotesOf(last.user_id)
                  /\ last.quote.id = last.id
             ELSE last.status = 404)

\* u1 generated the first quote, u2 the second, u1's products were deleted,
\* and then u1 read the first quote back by its id
C26_Witness ==
    /\ Len(db_quotes) = 2 /\ db_quotes[1].user_id = "u1" /\ db_quotes[2].user_id = "u2"
    /\ \A k \in 1..Len(db_products) : db_products[k].user_id # "u1"
    /\ last.op = "get_quote" /\ last.user_id = "u1" /\ last.id = db_quotes[1].id
    /\ last.status = 200 /\ last.quote = db_quotes[1]

\* ------------------------------------------------------------------------
\* Specification of the owners: the two users work on the same store with
\* every route, the reading ones included
\* ------------------------------------------------------------------------
Pages == {1, 2}
Limits == {1, 50}

OwnerProduct ==
    [name |-> "Gorra básica", description |-> "Gorra de 5 paneles", base_price |-> RInt(5),
     category |-> "Gorras", characteristics |-> Impresion("Bordado, Serigrafia")]

OwnerCatalogFile ==
    [extension |-> "csv", readable |-> TRUE,
     frame |-> [columns |-> <<"Nombre", "Precio">>, rows |-> <<GoodRow>>]]

OwnerTariffFile ==
    [extension |-> "csv", readable |-> TRUE,
     frame |-> [columns |-> <<"Tecnica", "Precio">>,
                rows |-> <<[cells |-> <<"Bordado", "0,05">>]>>]]

OwnerCreateProduct ==
    /\ Len(db_products) < MaxProducts /\ next_id.products <= MaxIds
    /\ \E u \in Users : create_product(u, OwnerProduct)

OwnerUploadCatalog ==
    /\ Len(db_products) < MaxProducts /\ next_id.products <= MaxIds
    /\ \E u \in Users : UploadCatalogRequest(u, OwnerCatalogFile)

OwnerUploadTariff ==
    /\ Len(db_marking_techniques) < MaxTechniques
    /\ \E u \in Users : UploadMarkingTariffRequest(u, OwnerTariffFile)

GetProducts == \E u \in Users, page \in Pages, limit \in Limits : get_products(u, page, limit)

GetMarkingTechniques == \E u \in Users : get_marking_techniques(u)

OwnerGetQuotes == \E u \in Users : get_quotes(u)

OwnerGetQuote == \E u \in Users, id \in 1..MaxIds : get_quote(u, id)

NextOwners ==
    \/ OwnerCreateProduct
    \/ OwnerUploadCatalog
    \/ DeleteProduct
    \/ DeleteAllProducts
    \/ CreateMarkingTechnique
    \/ OwnerUploadTariff
    \/ GenerateSmartQuote
    \/ GenerateQuote
    \/ GetProducts
    \/ GetMarkingTechniques
    \/ OwnerGetQuotes
    \/ OwnerGetQuote

SpecOwners == Init /\ [][NextOwners]_vars

\* the records of a user, and those of everybody else
Own(records, user_id) == SelectSeq(records, LAMBDA r : r.user_id = user_id)
Others(records, user_id) == SelectSeq(records, LAMBDA r : r.user_id # user_id)

\* the response to the request of a step is the one the same request gets on
\* a store holding the records of its user alone
AnsweredFromOwn(A) ==
    CASE last'.op = "generate_smart_quote" ->
           last' = generate_smart_quote(Own(db_products, A), Own(db_marking_techniques, A),
                                        A, last'.request, next_id.quotes)
      [] last'.op = "generate_quote" ->
           last' = generate_quote(Own(db_products, A), Own(db_marking_techniques, A),
                                  A, last'.request, next_id.quotes)
      [] last'.op = "get_products" ->
           /\ last'.total_count = Len(Own(db_products, A))
           /\ last'.products = Items(Own(db_products, A), (last'.page - 1) * last'.limit,
                                     last'.page * last'.limit)
      [] last'.op = "get_marking_techniques" ->
           last'.techniques = Own(db_marking_techniques, A)
      [] last'.op = "get_quotes" ->
           {last'.quotes[k] : k \in 1..Len(last'.quotes)}
             = {db_quotes[k] : k \in {i \in 1..Len(db_quotes) : db_quotes[i].user_id = A}}
      [] last'.op = "get_quote" ->
           IF \E k \in 1..Len(db_quotes) : db_quotes[k].id = last'.id /\ db_quotes[k].user_id = A
           THEN last'.status = 200 /\ last'.quote.user_id = A /\ last'.quote.id = last'.id
           ELSE last'.status = 404
      [] last'.op = "delete_product" ->
           IF \E k \in 1..Len(db_products) :
                 db_products[k].id = last'.id /\ db_products[k].user_id = A
           THEN /\ last'.status = 200
                /\ Own(db_products', A)
                      = SelectSeq(Own(db_products, A), LAMBDA p : p.id # last'.id)
           ELSE last'.status = 404 /\ db_products' = db_products
      [] last'.op = "delete_all_products" ->
           /\ Own(db_products', A) = <<>>
           /\ last'.deleted_count = Len(Own(db_products, A))
      [] OTHER -> TRUE

\* the records a step adds to a collection
Added(before, after) ==
    {after[k] : k \in {i \in 1..Len(after) : \A j \in 1..Len(before) : before[j].id # after[i].id}}

\* C28: owner isolation.  Every operation of a user leaves the products,
\* marking techniques and quotes of the other users as they are, gives every
\* record it creates the user_id of its user, and answers from the records
\* of its user alone: the lists, the quote candidates and the marking costs
\* are those of a store without the other users' records, delete_product on
\* another user's product id answers 404 and changes nothing, and
\* delete_all_products removes the products of its user only.
C28_OwnerIsolation ==
    [][/\ Others(db_products', last'.user_id) = Others(db_products, last'.user_id)
       /\ Others(db_marking_techniques', last'.user_id)
             = Others(db_marking_techniques, last'.user_id)
       /\ Others(db_quotes', last'.user_id) = Others(db_quotes, last'.user_id)
       /\ \A r \in Added(db_products, db_products')
                    \cup Added(db_marking_techniques, db_marking_techniques')
                    \cup Added(db_quotes, db_quotes') : r.user_id = last'.user_id
       /\ AnsweredFromOwn(last'.user_id)]_vars

\* a user asked for the deletion of a product of the other user: 404, and the
\* product is still stored
C28_Witness ==
    /\ last.op = "delete_product" /\ last.status = 404
    /\ \E k \in 1..Len(db_products) :
          db_products[k].id = last.id /\ db_products[k].user_id # last.user_id

\* ------------------------------------------------------------------------
\* Specification of the folding of unmapped columns: user u1 uploads a
\* one-row catalog whose headers are up to MaxFoldHeaders of a pool
\* ------------------------------------------------------------------------
MaxFoldHeaders == 3

FoldHeaderPool ==
    {"Nombre", "Ref", "Referencia", "Impresion", "Precios_volumen", "Color",
     "Print_code", "Precio"}

\* the cell of the row under each header
FoldCell(header) ==
    CASE header = "Nombre" -> "Gorra"
      [] header = "Ref" -> "R-1"
      [] header = "Referencia" -> "X-9"
      [] header = "Impresion" -> "Bordado"
      [] header = "Precios_volumen" -> "si"
      [] header = "Color" -> "Rojo"
      [] header = "Print_code" -> "Serigrafia"
      [] header = "Precio" -> "5"

FoldHeaderLists ==
    {h \in UNION {[1..n -> FoldHeaderPool] : n \in 1..MaxFoldHeaders} :
        \A i, j \in 1..Len(h) : i # j => h[i] # h[j]}

FoldFile(headers) ==
    [extension |-> "xlsx", readable |-> TRUE,
     frame |-> [columns |-> headers,
                rows |-> <<[cells |-> [k \in 1..Len(headers) |-> FoldCell(headers[k])],
                            fault |-> None]>>]]

UploadFolded ==
    /\ last = NoRequest
    /\ \E headers \in FoldHeaderLists : UploadCatalogRequest("u1", FoldFile(headers))

NextFold == UploadFolded

SpecFold == InitUpload /\ [][NextFold]_vars

\* the headers of the uploaded file
FoldedHeaders == {last.file.frame.columns[k] : k \in 1..Len(last.file.frame.columns)}

\* the value of the resolved reference column: 'ref' comes before
\* 'referencia' in the names of the field
ResolvedReference ==
    IF "Ref" \in FoldedHeaders THEN FoldCell("Ref")
    ELSE IF "Referencia" \in FoldedHeaders THEN FoldCell("Referencia")
    ELSE ""

\* a request for embroidered caps
FoldRequest == parse_client_request("gorras con bordado", 50)

\* C29: in every product produced by upload_catalog, whatever the headers of
\* the file, characteristics.precios_volumen and characteristics.impresion
\* are mappings and characteristics.referencia is the value of the resolved
\* reference column: folding the unmapped columns in overwrites no
\* synthesized entry, and calculate_product_score can read
\* characteristics.impresion.tecnica_grabacion of the product.
C29_FoldingKeepsSynthesized ==
    Uploaded =>
        \A k \in 1..Len(db_products) :
           /\ db_products[k].characteristics["precios_volumen"].t = "map"
           /\ db_products[k].characteristics["impresion"].t = "map"
           /\ db_products[k].characteristics["referencia"] = SV(ResolvedReference)
           /\ calculate_product_score(db_products[k], FoldRequest).raised = None


\* ------------------------------------------------------------------------
\* Specification of register: POST /auth/register. The coroutine suspends
\* at each await and the event loop runs the other requests in between, so
\* the steps of concurrent register requests interleave at find_one and at
\* insert_one; the users collection has no unique index
\* ------------------------------------------------------------------------
MaxRegisters == 3

Emails == {"ana@x.es", "luis@x.es"}
Usernames == {"ana", "luis"}
Passwords == {"secreto"}

\* passwords of at most 72 bytes are hashed as they are
get_password_hash(password) == [bcrypt |-> password]

\* db.users.find_one({"email": email}): the first record with the email, as
\* a sequence of at most one record (empty for None)
find_user(users, email) ==
    LET found == SelectSeq(users, LAMBDA u : u.email = email)
    IN IF found = <<>> THEN <<>> ELSE <<found[1]>>

\* User(email, username) with its default fields, and the stored dictionary
User(id, user_create) ==
    [id |-> id, email |-> user_create.email, username |-> user_create.username,
     is_active |-> TRUE]

user_dict(user, hashed_password) ==
    [id |-> user.id, email |-> user.email, username |-> user.username,
     is_active |-> user.is_active, hashed_password |-> hashed_password]

\* the coroutine of a request that just arrived, about to await find_one
RegisterCall(user_create) ==
    [user_create |-> user_create, at |-> "find_one", existing_user |-> <<>>,
     status |-> 0, detail |-> None, inserted |-> <<>>]

InitRegister == EmptyStore /\ eval = [fn |-> "register", calls |-> <<>>]

\* a register request arrives
Register ==
    /\ Len(eval.calls) < MaxRegisters
    /\ \E email \in Emails, username \in Usernames, password \in Passwords :
          eval' = [eval EXCEPT !.calls = Append(@, RegisterCall(
                      [email |-> email, username |-> username,
                       password |-> password]))]
    /\ UNCHANGED store

\* existing_user = await db.users.find_one(...); a found user raises the 400
RegisterFindOne ==
    /\ \E i \in DOMAIN eval.calls :
          /\ eval.calls[i].at = "find_one"
          /\ LET existing_user == find_user(db_users, eval.calls[i].user_create.email)
             IN eval' = [eval EXCEPT !.calls[i] =
                    IF existing_user # <<>>
                    THEN [@ EXCEPT !.existing_user = existing_user,
                                   !.at = "done", !.status = 400,
                                   !.detail = "Email already registered"]
                    ELSE [@ EXCEPT !.at = "insert_one"]]
    /\ UNCHANGED store

\* await db.users.insert_one(user_dict), then the token response
RegisterInsertOne ==
    /\ \E i \in DOMAIN eval.calls :
          /\ eval.calls[i].at = "insert_one"
          /\ LET user == User(Len(db_users) + 1, eval.calls[i].user_create)
                 stored == user_dict(user,
                     get_password_hash(eval.calls[i].user_create.password))
             IN /\ db_users' = Append(db_users, stored)
                /\ eval' = [eval EXCEPT !.calls[i] =
                       [@ EXCEPT !.at = "done", !.status = 200,
                                 !.inserted = <<user.id>>]]
    /\ UNCHANGED <<db_products, db_marking_techniques, db_quotes, next_id, last>>

NextRegister == Register \/ RegisterFindOne \/ RegisterInsertOne

SpecRegister == InitRegister /\ [][NextRegister]_vars

UsersWithEmail(email) == {k \in DOMAIN db_users : db_users[k].email = email}

\* C30: after any interleaving of register requests, two concurrent requests
\* with the same email included, at most one user record exists per email;
\* and a register request for an email that is already stored fails with 400
\* and inserts nothing
C30_OneUserPerEmail ==
    /\ \A email \in Emails : Cardinality(UsersWithEmail(email)) <= 1
    /\ \A i \in DOMAIN eval.calls :
          eval.calls[i].existing_user # <<>> =>
              /\ eval.calls[i].status = 400
              /\ eval.calls[i].inserted = <<>>

====
